---- MODULE Spec2Model ----
(***************************************************************************)
(* Model of the two-exchange arbitrage bot (Bitget / Hyperliquid):         *)
(*   - RiskManager              src/core/risk_manager.py                   *)
(*   - ArbitrageEngine/Position src/core/arbitrage_engine.py               *)
(*   - PaperTradeExecutor       src/core/paper_executor.py                 *)
(*   - LiveTradeExecutor        src/core/live_executor.py                  *)
(*   - the decision loop        src/main.py                                *)
(*   - the dashboard handlers   src/web_server.py                          *)
(*                                                                         *)
(* Fixed-point units (the code uses floats):                               *)
(*   contracts      1 = 0.0001 contract                                    *)
(*   prices         1 = 0.0001 USD                                         *)
(*   money          1 = 0.000001 USD                                       *)
(*   spreads        1 = 0.001 percentage point                             *)
(*   slippage/fees  1 = 0.00001 (fraction)                                 *)
(*   time           1 = 1 second                                           *)
(* Divisions round down (\div); the code's float rounding is not modelled. *)
(***************************************************************************)
EXTENDS Integers, Sequences, FiniteSets, TLC

(***************************************************************************)
(* Bounds of the model (not program constants).                            *)
(***************************************************************************)
MaxTrades == 3

(***************************************************************************)
(* Program constants.                                                      *)
(***************************************************************************)
USD == 1000000

None == "None"

\* None where the value is otherwise a record
Null == [none |-> TRUE]

\* None where the value is otherwise a time stamp
NoTime == -1

\* config.py RISK_CONFIG, in model units
RISK_CONFIG ==
    [MAX_POSITION_CONTRACTS |-> 200,
     MIN_ORDER_CONTRACTS    |-> 100,
     MAX_DAILY_LOSS         |-> 100 * USD,
     MAX_SLIPPAGE           |-> 10,
     SAFETY_MULTIPLIER      |-> 80]

\* config.py TRADING_CONFIG, the keys the core reads, in model units
TRADING_CONFIG ==
    [MIN_SPREAD_ENTER   |-> 100,
     MIN_SPREAD_EXIT    |-> -20,
     MARKET_SLIPPAGE    |-> 10,
     FEES               |-> [bitget |-> 6, hyperliquid |-> 5],
     MIN_ORDER_INTERVAL |-> 3]

\* the 0.0001-contract tolerance of the minimal-order capacity check
CapacityEpsilon == 1

Abs(x) == IF x < 0 THEN -x ELSE x

Max2(a, b) == IF a >= b THEN a ELSE b

Min2(a, b) == IF a <= b THEN a ELSE b

(***************************************************************************)
(* State                                                                   *)
(***************************************************************************)
VARIABLES
    \* ---- RiskManager ----
    config,            \* RiskManager.config (RISK_CONFIG, live-editable)
    daily_stats,       \* RiskManager.daily_stats
    session_loss,      \* RiskManager.session_loss
    total_trades,      \* RiskManager.total_trades
    max_drawdown,      \* RiskManager.max_drawdown
    daily_stats_file,  \* contents of daily_risk_stats.json (Null: absent)
    \* ---- observation of the last RiskManager call ----
    last_call,         \* [op, seq, args, result] of the last public call;
                       \* seq flips at every call
    recorded_loss,     \* sum of |pnl| over the losing pnls given to
                       \* record_trade_result today (observer, not code)
    \* ---- ArbitrageEngine ----
    positions,         \* every Position object created or restored, in
                       \* creation order; the lists below hold indices
    open_positions,    \* ArbitrageEngine.open_positions
    trade_history,     \* ArbitrageEngine.trade_history
    position_counter,  \* ArbitrageEngine.position_counter
    total_fees,        \* ArbitrageEngine.total_fees
    total_pnl,         \* ArbitrageEngine.total_pnl
    total_volume,      \* ArbitrageEngine.total_volume
    last_order_time,   \* ArbitrageEngine.last_order_time
    positions_file,    \* contents of positions.json (Null: absent)
    \* ---- PaperTradeExecutor ----
    portfolio,         \* PaperTradeExecutor.portfolio
    paper_trade_history, \* tags of PaperTradeExecutor.trade_history
    \* ---- LiveTradeExecutor ----
    live,              \* the executor's flags and the tags of its trade_history
    \* ---- cooperative tasks and the clock ----
    loop,              \* the decision loop (main.py trading_cycle)
    dash,              \* the dashboard message handler (web_server.py)
    now,               \* time.time()
    ticks,             \* monitoring passes and restarts so far (bounds the
                       \* run)
    \* ---- observation of the last order pair returned to the engine ----
    last_pair,         \* [seq, caller, kind, legs, result]; seq flips
    \* ---- WebSocketManager and the BaseWebSocketClient of one feed ----
    conn,              \* WebSocketManager.connections[name]
    tasks,             \* the reconnect_connection tasks created so far
    client,            \* the fields of the BaseWebSocketClient
    threads,           \* positions of the live _run_forever threads
    stopped,           \* stop_all has been called (history)
    \* ---- the wall clock's calendar date ----
    today,             \* datetime.now().strftime('%Y-%m-%d') as a day number
    \* ---- observation of the entry pairs the engine submitted ----
    last_entry,        \* [time, seq] of the last entry pair submitted (seq
                       \* flips) and the id of the last position created
    \* ---- NVDAFuturesArbitrageBot and the health of its two feeds ----
    feed_ok,           \* [bitget, hyper]: what is_healthy() returns now
    bot                \* running, trading_mode, bitget_healthy, ...

riskVars == <<config, daily_stats, session_loss, total_trades, max_drawdown,
              daily_stats_file>>

riskObs == <<last_call, recorded_loss>>

engineVars == <<positions, open_positions, trade_history, position_counter,
                total_fees, total_pnl, total_volume, last_order_time,
                positions_file>>

paperVars == <<portfolio, paper_trade_history>>

liveVars == <<live>>

taskVars == <<loop, dash, now, ticks, last_pair>>

feedVars == <<conn, tasks, client, threads, stopped>>

botVars == <<feed_ok, bot>>

vars == <<riskVars, riskObs, engineVars, paperVars, liveVars, taskVars,
          feedVars, today, last_entry, botVars>>

\* no entry pair submitted yet
NoEntry == [time |-> NoTime, seq |-> 0, id |-> NoTime]

\* NVDAFuturesArbitrageBot.__init__; last_health_check is the local of
\* trading_cycle, NoTime until the loop starts
NewBot ==
    [running |-> FALSE, trading_enabled |-> TRUE, trading_mode |-> "STOPPED",
     bitget_healthy |-> FALSE, hyper_healthy |-> FALSE,
     last_health_check |-> NoTime]

BotCreated ==
    /\ feed_ok = [bitget |-> FALSE, hyper |-> FALSE]
    /\ bot = NewBot

(***************************************************************************)
(* WebSocketManager.register_connection and BaseWebSocketClient.__init__   *)
(***************************************************************************)
\* connections[name] after register_connection
NewConnection == [state |-> "DISCONNECTED", reconnect_attempts |-> 0]

\* BaseWebSocketClient.__init__
NewClient ==
    [connected |-> FALSE, reconnecting |-> FALSE, stop_flag |-> FALSE,
     reconnect_attempts |-> 0]

\* the feed as registered, its client not yet started
FeedRegistered ==
    /\ conn = NewConnection
    /\ tasks = <<>>
    /\ client = NewClient
    /\ threads = <<>>
    /\ stopped = FALSE

(***************************************************************************)
(* RiskManager                                                             *)
(***************************************************************************)
\* the fresh record of _load_daily_stats on the calendar day date (days are
\* numbered from the day the program first starts)
fresh_daily_stats(date) ==
    [date                 |-> date,
     total_loss           |-> 0,
     total_trades         |-> 0,
     max_loss_trade       |-> 0,
     consecutive_losses   |-> 0,
     daily_limit_exceeded |-> FALSE]

\* the fresh record of the first day
NewDailyStats == fresh_daily_stats(0)

\* mutant: the saved record is never taken
m_load_daily_stats_always_fresh(file, date) == fresh_daily_stats(date)

\* _load_daily_stats on the calendar day date: the saved record when there
\* is one of that day, else a fresh one
_load_daily_stats(file, date) ==
    IF file # Null /\ file.date = date THEN file ELSE fresh_daily_stats(date)

\* mutant: the latch is not consulted first
m_can_open_skips_latch(ds, sl, cfg, spread, cur, slippage) ==
    IF Abs(ds.total_loss + sl) >= cfg.MAX_DAILY_LOSS
    THEN [allowed |-> FALSE, reason |-> "Daily loss limit reached", latch |-> TRUE]
    ELSE IF spread < TRADING_CONFIG.MIN_SPREAD_ENTER
    THEN [allowed |-> FALSE, reason |-> "Spread too low", latch |-> FALSE]
    ELSE IF cfg.MAX_POSITION_CONTRACTS <= 0
    THEN [allowed |-> FALSE, reason |-> "Max position size is zero or negative", latch |-> FALSE]
    ELSE IF cur >= cfg.MAX_POSITION_CONTRACTS
    THEN [allowed |-> FALSE, reason |-> "Max position reached", latch |-> FALSE]
    ELSE IF (cur + cfg.MIN_ORDER_CONTRACTS) > cfg.MAX_POSITION_CONTRACTS + CapacityEpsilon
    THEN [allowed |-> FALSE, reason |-> "No capacity for minimal order", latch |-> FALSE]
    ELSE IF slippage > cfg.MAX_SLIPPAGE
    THEN [allowed |-> FALSE, reason |-> "Slippage too high", latch |-> FALSE]
    ELSE [allowed |-> TRUE, reason |-> "OK", latch |-> FALSE]

\* mutant: the slippage check is made before the size checks
m_can_open_slippage_first(ds, sl, cfg, spread, cur, slippage) ==
    IF ds.daily_limit_exceeded
    THEN [allowed |-> FALSE, reason |-> "Daily loss limit exceeded", latch |-> FALSE]
    ELSE IF Abs(ds.total_loss + sl) >= cfg.MAX_DAILY_LOSS
    THEN [allowed |-> FALSE, reason |-> "Daily loss limit reached", latch |-> TRUE]
    ELSE IF spread < TRADING_CONFIG.MIN_SPREAD_ENTER
    THEN [allowed |-> FALSE, reason |-> "Spread too low", latch |-> FALSE]
    ELSE IF slippage > cfg.MAX_SLIPPAGE
    THEN [allowed |-> FALSE, reason |-> "Slippage too high", latch |-> FALSE]
    ELSE IF cfg.MAX_POSITION_CONTRACTS <= 0
    THEN [allowed |-> FALSE, reason |-> "Max position size is zero or negative", latch |-> FALSE]
    ELSE IF cur >= cfg.MAX_POSITION_CONTRACTS
    THEN [allowed |-> FALSE, reason |-> "Max position reached", latch |-> FALSE]
    ELSE IF (cur + cfg.MIN_ORDER_CONTRACTS) > cfg.MAX_POSITION_CONTRACTS + CapacityEpsilon
    THEN [allowed |-> FALSE, reason |-> "No capacity for minimal order", latch |-> FALSE]
    ELSE [allowed |-> TRUE, reason |-> "OK", latch |-> FALSE]

\* can_open_position as a function of the manager's state and its
\* arguments: the verdict, the reason and whether the call latches
\* daily_limit_exceeded (and then saves the daily record).
can_open_position_result(ds, sl, cfg, spread, cur, slippage) ==
    LET current_daily_loss == ds.total_loss + sl
        min_spread_percent == TRADING_CONFIG.MIN_SPREAD_ENTER
        max_contracts      == cfg.MAX_POSITION_CONTRACTS
        min_order          == cfg.MIN_ORDER_CONTRACTS
        max_slippage       == cfg.MAX_SLIPPAGE
    IN  IF ds.daily_limit_exceeded
        THEN [allowed |-> FALSE, reason |-> "Daily loss limit exceeded", latch |-> FALSE]
        ELSE IF Abs(current_daily_loss) >= cfg.MAX_DAILY_LOSS
        THEN [allowed |-> FALSE, reason |-> "Daily loss limit reached", latch |-> TRUE]
        ELSE IF spread < min_spread_percent
        THEN [allowed |-> FALSE, reason |-> "Spread too low", latch |-> FALSE]
        ELSE IF max_contracts <= 0
        THEN [allowed |-> FALSE, reason |-> "Max position size is zero or negative", latch |-> FALSE]
        ELSE IF cur >= max_contracts
        THEN [allowed |-> FALSE, reason |-> "Max position reached", latch |-> FALSE]
        ELSE IF (cur + min_order) > max_contracts + CapacityEpsilon
        THEN [allowed |-> FALSE, reason |-> "No capacity for minimal order", latch |-> FALSE]
        ELSE IF slippage > max_slippage
        THEN [allowed |-> FALSE, reason |-> "Slippage too high", latch |-> FALSE]
        ELSE [allowed |-> TRUE, reason |-> "OK", latch |-> FALSE]

\* _save_daily_stats: the write may fail, which is logged and ignored
save_daily_stats(ds, write_ok) ==
    IF write_ok THEN ds ELSE daily_stats_file

\* mutant: the latch is recomputed on every call from a total that gains
\* are netted against
m_record_daily_stats_nets_gains(ds, cfg, pnl, trades) ==
    LET netted == IF pnl < 0
                  THEN [ds EXCEPT !.total_loss = @ + pnl,
                                  !.consecutive_losses = @ + 1,
                                  !.max_loss_trade = IF Abs(pnl) > @ THEN Abs(pnl) ELSE @]
                  ELSE [ds EXCEPT !.total_loss = Min2(0, @ + pnl),
                                  !.consecutive_losses = 0]
    IN  [netted EXCEPT !.daily_limit_exceeded =
                           Abs(netted.total_loss) >= cfg.MAX_DAILY_LOSS,
                       !.total_trades = trades]

\* the daily record after record_trade_result(pnl, _), given the manager's
\* total_trades after its increment
record_daily_stats(ds, cfg, pnl, trades) ==
    LET lossy == IF pnl < 0
                 THEN [ds EXCEPT !.total_loss = @ + pnl,
                                 !.consecutive_losses = @ + 1,
                                 !.max_loss_trade = IF Abs(pnl) > @ THEN Abs(pnl) ELSE @]
                 ELSE [ds EXCEPT !.consecutive_losses = 0]
        latched == IF Abs(lossy.total_loss) >= cfg.MAX_DAILY_LOSS
                   THEN [lossy EXCEPT !.daily_limit_exceeded = TRUE]
                   ELSE lossy
    IN  [latched EXCEPT !.total_trades = trades]

\* RiskManager.can_open_position called with the given arguments
can_open_position(direction, spread, price, cur, slippage, write_ok) ==
    LET r == can_open_position_result(daily_stats, session_loss, config,
                                      spread, cur, slippage)
        ds == IF r.latch
              THEN [daily_stats EXCEPT !.daily_limit_exceeded = TRUE]
              ELSE daily_stats
    IN  /\ r.latch \/ write_ok      \* a write happens only when latching
        /\ daily_stats' = ds
        /\ daily_stats_file' = IF r.latch THEN save_daily_stats(ds, write_ok)
                               ELSE daily_stats_file
        /\ last_call' = [op |-> "can_open_position", seq |-> 1 - last_call.seq,
                         args |-> [direction |-> direction, spread |-> spread,
                                   price |-> price, cur |-> cur,
                                   slippage |-> slippage],
                         result |-> [allowed |-> r.allowed, reason |-> r.reason]]
        /\ UNCHANGED <<config, session_loss, total_trades, max_drawdown,
                       recorded_loss>>

\* RiskManager.record_trade_result(pnl, trade_volume)
record_trade_result(pnl, trade_volume, write_ok) ==
    LET ds == record_daily_stats(daily_stats, config, pnl, total_trades + 1)
    IN  /\ total_trades < MaxTrades
        /\ total_trades' = total_trades + 1
        /\ session_loss' = IF pnl < 0 THEN session_loss + pnl ELSE session_loss
        /\ daily_stats' = ds
        /\ max_drawdown' = IF Abs(ds.total_loss) > max_drawdown
                           THEN Abs(ds.total_loss) ELSE max_drawdown
        /\ daily_stats_file' = save_daily_stats(ds, write_ok)
        /\ recorded_loss' = IF pnl < 0 THEN recorded_loss + Abs(pnl)
                            ELSE recorded_loss
        /\ last_call' = [op |-> "record_trade_result", seq |-> 1 - last_call.seq,
                         args |-> [pnl |-> pnl, trade_volume |-> trade_volume],
                         result |-> Null]
        /\ UNCHANGED config

(***************************************************************************)
(* Position (arbitrage_engine.py).  A position is a record; the fields     *)
(* entry_time, last_spread_update and entry_slippage are not modelled.     *)
(***************************************************************************)
\* epsilon of Position.should_close: 0.001 percentage point
CloseEpsilon == 1

\* Position(...) followed by __post_init__: the history starts with the
\* entry spread
NewPosition(id, direction, contracts, entry_prices, entry_spread, exit_target) ==
    [id                  |-> id,
     direction           |-> direction,
     contracts           |-> contracts,
     entry_prices        |-> entry_prices,
     entry_spread        |-> entry_spread,
     exit_target         |-> exit_target,
     status              |-> "open",
     current_exit_spread |-> 0,
     spread_history      |-> <<entry_spread>>,
     update_count        |-> 0,
     exit_time           |-> NoTime,
     exit_reason         |-> None,
     exit_prices         |-> Null,
     final_pnl           |-> Null]

update_exit_spread(pos, exit_spread) ==
    [pos EXCEPT !.current_exit_spread = exit_spread,
                !.spread_history = Append(@, exit_spread),
                !.update_count = @ + 1]

m_should_close_strict(pos) ==
    pos.current_exit_spread > (pos.exit_target - CloseEpsilon)

should_close(pos) ==
    pos.current_exit_spread >= (pos.exit_target - CloseEpsilon)

(***************************************************************************)
(* Spread computation (ArbitrageEngine).  Market data is Null or a record  *)
(* [bid, ask]; a slippage estimate is Null or a record [buy, sell].        *)
(***************************************************************************)
\* price * (1 + slippage), price * (1 - slippage)
Inflate(price, slip) == price + (price * slip) \div 100000

Deflate(price, slip) == price - (price * slip) \div 100000

\* (sell / buy - 1) * 100, in 0.001 percentage points
\* (by long division, digit by digit: the product overflows 32 bits when a
\* price is far from the other)
RECURSIVE ScaledQuotient(_, _, _, _)
ScaledQuotient(quotient, remainder, divisor, digits) ==
    IF digits = 0
    THEN quotient
    ELSE ScaledQuotient(quotient * 10 + (remainder * 10) \div divisor,
                        (remainder * 10) % divisor, divisor, digits - 1)

GrossSpread(sell_price, buy_price) ==
    ScaledQuotient((sell_price - buy_price) \div buy_price,
                   (sell_price - buy_price) % buy_price, buy_price, 5)

slippage_or_default(slippage, side) ==
    IF slippage = Null THEN TRADING_CONFIG.MARKET_SLIPPAGE ELSE slippage[side]

\* 'bid' in data and 'ask' in data; a dict is a record, Null the value None
has_bid_ask(data) == "bid" \in DOMAIN data /\ "ask" \in DOMAIN data

\* calculate_spreads: Null stands for the empty dict
calculate_spreads(bitget_data, hyper_data, bitget_slippage, hyper_slippage) ==
    IF bitget_data = Null \/ hyper_data = Null
    THEN Null
    ELSE IF ~has_bid_ask(bitget_data) \/ ~has_bid_ask(hyper_data)
    THEN Null
    ELSE IF bitget_data.bid = 0 \/ bitget_data.ask = 0
            \/ hyper_data.bid = 0 \/ hyper_data.ask = 0
    THEN Null
    ELSE LET bg_buy_slippage  == slippage_or_default(bitget_slippage, "buy")
             bg_sell_slippage == slippage_or_default(bitget_slippage, "sell")
             hl_buy_slippage  == slippage_or_default(hyper_slippage, "buy")
             hl_sell_slippage == slippage_or_default(hyper_slippage, "sell")
             buy_price_bh  == Inflate(bitget_data.ask, bg_buy_slippage)
             sell_price_bh == Deflate(hyper_data.bid, hl_sell_slippage)
             buy_price_hb  == Inflate(hyper_data.ask, hl_buy_slippage)
             sell_price_hb == Deflate(bitget_data.bid, bg_sell_slippage)
         IN  [B_TO_H |-> [gross_spread  |-> GrossSpread(sell_price_bh, buy_price_bh),
                          buy_price     |-> buy_price_bh,
                          sell_price    |-> sell_price_bh,
                          buy_exchange  |-> "bitget",
                          sell_exchange |-> "hyperliquid",
                          slippage_used |-> [buy |-> bg_buy_slippage,
                                             sell |-> hl_sell_slippage]],
              H_TO_B |-> [gross_spread  |-> GrossSpread(sell_price_hb, buy_price_hb),
                          buy_price     |-> buy_price_hb,
                          sell_price    |-> sell_price_hb,
                          buy_exchange  |-> "hyperliquid",
                          sell_exchange |-> "bitget",
                          slippage_used |-> [buy |-> hl_buy_slippage,
                                             sell |-> bg_sell_slippage]]]

calculate_exit_spread(pos, bitget_data, hyper_data, bitget_slippage, hyper_slippage) ==
    IF bitget_data = Null \/ hyper_data = Null
    THEN pos.current_exit_spread
    ELSE IF ~has_bid_ask(bitget_data) \/ ~has_bid_ask(hyper_data)
    THEN pos.current_exit_spread
    ELSE LET bg_buy_slippage  == slippage_or_default(bitget_slippage, "buy")
             bg_sell_slippage == slippage_or_default(bitget_slippage, "sell")
             hl_buy_slippage  == slippage_or_default(hyper_slippage, "buy")
             hl_sell_slippage == slippage_or_default(hyper_slippage, "sell")
             exit_buy_price ==
                 IF pos.direction = "B_TO_H"
                 THEN Inflate(hyper_data.ask, hl_buy_slippage)
                 ELSE Inflate(bitget_data.ask, bg_buy_slippage)
             exit_sell_price ==
                 IF pos.direction = "B_TO_H"
                 THEN Deflate(bitget_data.bid, bg_sell_slippage)
                 ELSE Deflate(hyper_data.bid, hl_sell_slippage)
         IN  IF exit_buy_price > 0
             THEN GrossSpread(exit_sell_price, exit_buy_price)
             ELSE 0

(***************************************************************************)
(* RiskManager.calculate_position_size                                     *)
(***************************************************************************)
calculate_position_size(cfg, price, spread, cur) ==
    LET max_contracts      == cfg.MAX_POSITION_CONTRACTS
        min_order          == cfg.MIN_ORDER_CONTRACTS
        remaining_capacity == max_contracts - cur
        order_contracts    == Min2(min_order, remaining_capacity)
        safe_contracts     == (order_contracts * cfg.SAFETY_MULTIPLIER) \div 100
    IN  IF remaining_capacity <= 0
        THEN [contracts |-> 0, can_add |-> FALSE]
        ELSE [contracts |-> IF safe_contracts < min_order
                               /\ remaining_capacity >= min_order
                            THEN min_order ELSE safe_contracts,
              can_add |-> TRUE]

(***************************************************************************)
(* PnL (ArbitrageEngine.calculate_trade_pnl), money in 0.000001 USD        *)
(***************************************************************************)
\* price * contracts in money units
Notional(price, contracts) == (price * contracts) \div 100

Fee(volume, rate) == (volume * rate) \div 100000

\* The fees of the unwind charged at the rates of the entry legs: the buy
\* at the rate of the exchange the entry bought on
m_calculate_trade_pnl_entry_rates(pos, exit_result) ==
    LET entry_buy_price  == pos.entry_prices.buy
        entry_sell_price == pos.entry_prices.sell
        contracts        == pos.contracts
        exit_buy_price   == exit_result.buy_order.price
        exit_sell_price  == exit_result.sell_order.price
        entry_leg == Notional(entry_sell_price - entry_buy_price, contracts)
        exit_leg  == Notional(exit_sell_price - exit_buy_price, contracts)
        gross_pnl == entry_leg + exit_leg
        fees      == TRADING_CONFIG.FEES
        bh        == pos.direction = "B_TO_H"
        entry_buy_fee  == Fee(Notional(entry_buy_price, contracts),
                              IF bh THEN fees.bitget ELSE fees.hyperliquid)
        entry_sell_fee == Fee(Notional(entry_sell_price, contracts),
                              IF bh THEN fees.hyperliquid ELSE fees.bitget)
        exit_buy_fee   == Fee(Notional(exit_buy_price, contracts),
                              IF bh THEN fees.bitget ELSE fees.hyperliquid)
        exit_sell_fee  == Fee(Notional(exit_sell_price, contracts),
                              IF bh THEN fees.hyperliquid ELSE fees.bitget)
        total_fees_ == entry_buy_fee + entry_sell_fee + exit_buy_fee + exit_sell_fee
        net_pnl     == gross_pnl - total_fees_
        entry_cost  == Notional(entry_buy_price, contracts)
    IN  [gross |-> gross_pnl,
         fees  |-> total_fees_,
         net   |-> net_pnl,
         return_percent |->
             IF entry_cost > 0
             THEN ScaledQuotient(net_pnl \div entry_cost, net_pnl % entry_cost,
                                 entry_cost, 5)
             ELSE 0,
         fee_breakdown |-> [entry_buy  |-> entry_buy_fee,
                            entry_sell |-> entry_sell_fee,
                            exit_buy   |-> exit_buy_fee,
                            exit_sell  |-> exit_sell_fee]]

\* calculate_trade_pnl; return_percent in 0.001 percentage points
calculate_trade_pnl(pos, exit_result) ==
    LET entry_buy_price  == pos.entry_prices.buy
        entry_sell_price == pos.entry_prices.sell
        contracts        == pos.contracts
        exit_buy_price   == exit_result.buy_order.price
        exit_sell_price  == exit_result.sell_order.price
        entry_leg == Notional(entry_sell_price - entry_buy_price, contracts)
        exit_leg  == Notional(exit_sell_price - exit_buy_price, contracts)
        gross_pnl == entry_leg + exit_leg
        fees      == TRADING_CONFIG.FEES
        bh        == pos.direction = "B_TO_H"
        entry_buy_fee  == Fee(Notional(entry_buy_price, contracts),
                              IF bh THEN fees.bitget ELSE fees.hyperliquid)
        entry_sell_fee == Fee(Notional(entry_sell_price, contracts),
                              IF bh THEN fees.hyperliquid ELSE fees.bitget)
        exit_buy_fee   == Fee(Notional(exit_buy_price, contracts),
                              IF bh THEN fees.hyperliquid ELSE fees.bitget)
        exit_sell_fee  == Fee(Notional(exit_sell_price, contracts),
                              IF bh THEN fees.bitget ELSE fees.hyperliquid)
        total_fees_ == entry_buy_fee + entry_sell_fee + exit_buy_fee + exit_sell_fee
        net_pnl     == gross_pnl - total_fees_
        entry_cost  == Notional(entry_buy_price, contracts)
    IN  [gross |-> gross_pnl,
         fees  |-> total_fees_,
         net   |-> net_pnl,
         return_percent |->
             IF entry_cost > 0
             THEN ScaledQuotient(net_pnl \div entry_cost, net_pnl % entry_cost,
                                 entry_cost, 5)
             ELSE 0,
         fee_breakdown |-> [entry_buy  |-> entry_buy_fee,
                            entry_sell |-> entry_sell_fee,
                            exit_buy   |-> exit_buy_fee,
                            exit_sell  |-> exit_sell_fee]]

(***************************************************************************)
(* PaperTradeExecutor.  A portfolio is [USDT, NVDA]; an order is           *)
(* [exchange, symbol, side, amount], symbol None when the key is absent.   *)
(***************************************************************************)
\* the price 171.0 of the balance estimate and of the price table
PaperBasePrice == 1710000

\* the price 170.0 used when the price table has no entry for the order
PaperDefaultPrice == 1700000

\* current_prices.get(exchange, {}).get(symbol, 170.0)
current_price(exchange, symbol) ==
    IF \/ exchange = "bitget" /\ symbol = "NVDAUSDT"
       \/ exchange = "hyperliquid" /\ symbol = "xyz:NVDA"
    THEN PaperBasePrice
    ELSE PaperDefaultPrice

_simulate_market_price(base_price, side) ==
    IF side = "buy"
    THEN Inflate(base_price, TRADING_CONFIG.MARKET_SLIPPAGE)
    ELSE Deflate(base_price, TRADING_CONFIG.MARKET_SLIPPAGE)

\* execute_market_order after its sleep: the outcome and the portfolio
execute_market_order(pf, order) ==
    LET base_price == current_price(order.exchange, order.symbol)
        executed_price == _simulate_market_price(base_price, order.side)
        volume == Notional(executed_price, order.amount)
        fee    == Fee(volume, TRADING_CONFIG.FEES[order.exchange])
        filled == [success |-> TRUE, exchange |-> order.exchange,
                   side |-> order.side, amount |-> order.amount,
                   price |-> executed_price, fee |-> fee]
    IN  IF order.side = "buy"
        THEN IF pf.USDT >= volume + fee
             THEN [order |-> filled,
                   portfolio |-> [USDT |-> pf.USDT - (volume + fee),
                                  NVDA |-> pf.NVDA + order.amount]]
             ELSE [order |-> [success |-> FALSE, error |-> "Insufficient USDT balance"],
                   portfolio |-> pf]
        ELSE IF pf.NVDA >= order.amount
             THEN [order |-> filled,
                   portfolio |-> [USDT |-> pf.USDT + (volume - fee),
                                  NVDA |-> pf.NVDA - order.amount]]
             ELSE [order |-> [success |-> FALSE, error |-> "Insufficient NVDA balance"],
                   portfolio |-> pf]

\* the balance check that opens execute_fok_pair
fok_pair_has_funds(pf, buy_order) ==
    LET buy_cost == Notional(PaperBasePrice, buy_order.amount)
        buy_cost_with_fee == buy_cost + Fee(buy_cost, TRADING_CONFIG.FEES[buy_order.exchange])
    IN  ~(pf.USDT < buy_cost_with_fee)

\* results of execute_fok_pair; requires_manual_intervention FALSE stands
\* for the key being absent
PairFailure(tag, error, flag) ==
    [success |-> FALSE, tag |-> tag, error |-> error,
     buy_order |-> Null, sell_order |-> Null,
     requires_manual_intervention |-> flag]

PairSuccess(tag, buy_result, sell_result) ==
    [success |-> TRUE, tag |-> tag, error |-> None,
     buy_order |-> buy_result, sell_order |-> sell_result,
     requires_manual_intervention |-> FALSE]

(***************************************************************************)
(* ArbitrageEngine state.  An engine state E is the record of the engine's  *)
(* fields; Position objects live in E.positions and the lists open_positions*)
(* and trade_history hold their indices (object identity).                 *)
(***************************************************************************)
Engine ==
    [positions        |-> positions,
     open_positions   |-> open_positions,
     trade_history    |-> trade_history,
     position_counter |-> position_counter,
     total_fees       |-> total_fees,
     total_pnl        |-> total_pnl,
     total_volume     |-> total_volume,
     last_order_time  |-> last_order_time,
     positions_file   |-> positions_file]

\* the engine's fields become those of E
SetEngine(E) ==
    /\ positions' = E.positions
    /\ open_positions' = E.open_positions
    /\ trade_history' = E.trade_history
    /\ position_counter' = E.position_counter
    /\ total_fees' = E.total_fees
    /\ total_pnl' = E.total_pnl
    /\ total_volume' = E.total_volume
    /\ last_order_time' = E.last_order_time
    /\ positions_file' = E.positions_file

\* the engine's fields at start are those of E
SetEngineInit(E) ==
    /\ positions = E.positions
    /\ open_positions = E.open_positions
    /\ trade_history = E.trade_history
    /\ position_counter = E.position_counter
    /\ total_fees = E.total_fees
    /\ total_pnl = E.total_pnl
    /\ total_volume = E.total_volume
    /\ last_order_time = E.last_order_time
    /\ positions_file = E.positions_file

InSeq(x, s) == \E i \in 1..Len(s) : s[i] = x

\* list.remove(x): the first occurrence goes; the list is unchanged when x
\* is absent (the ValueError is caught by the caller)
RemoveFirst(s, x) ==
    IF ~InSeq(x, s) THEN s
    ELSE LET i == CHOOSE k \in 1..Len(s) :
                    s[k] = x /\ \A j \in 1..(k - 1) : s[j] # x
         IN  SubSeq(s, 1, i - 1) \o SubSeq(s, i + 1, Len(s))

\* TradeDirection.value
DirectionValue(direction) ==
    IF direction = "B_TO_H" THEN "B→H" ELSE "H→B"

\* A parser that knows the ASCII spellings only: the arrow of
\* TradeDirection.value falls through to the default
m_parse_direction_ascii_only(value) ==
    IF value \in {"B->H", "B_TO_H", "B2H"} THEN "B_TO_H"
    ELSE IF value \in {"H->B", "H_TO_B", "H2B"} THEN "H_TO_B"
    ELSE "H_TO_B"

\* Position._parse_direction on the spellings it lists; a value with
\* neither letter falls through to the default H_TO_B
_parse_direction(value) ==
    IF value \in {"B→H", "B->H", "B_TO_H", "B2H"} THEN "B_TO_H"
    ELSE IF value \in {"H→B", "H->B", "H_TO_B", "H2B"} THEN "H_TO_B"
    ELSE "H_TO_B"

\* Position.to_dict
to_dict(pos) ==
    [pos EXCEPT !.direction = DirectionValue(pos.direction)]

\* data.get(key, default); a key whose value is None is absent here
DictGet(data, key, default) ==
    IF key \in DOMAIN data THEN data[key] ELSE default

\* 1.0 percentage point, the distance from_dict puts between a missing
\* current_exit_spread and the exit target
FarFromTarget == 1000

\* Position.from_dict; the keys after exit_target may be missing
from_dict(data) ==
    LET spread_history ==
            IF DictGet(data, "spread_history", <<>>) = <<>>
            THEN <<data.entry_spread>> ELSE data.spread_history
        current_exit_spread ==
            IF "current_exit_spread" \in DOMAIN data
            THEN data.current_exit_spread
            ELSE IF Len(spread_history) > 1
            THEN spread_history[Len(spread_history)]
            ELSE data.exit_target - FarFromTarget
    IN  [id                  |-> data.id,
         direction           |-> _parse_direction(data.direction),
         contracts           |-> data.contracts,
         entry_prices        |-> data.entry_prices,
         entry_spread        |-> data.entry_spread,
         exit_target         |-> data.exit_target,
         status              |-> DictGet(data, "status", "open"),
         current_exit_spread |-> current_exit_spread,
         spread_history      |-> spread_history,
         update_count        |-> DictGet(data, "update_count",
                                         Len(spread_history) - 1),
         exit_time           |-> DictGet(data, "exit_time", NoTime),
         exit_reason         |-> DictGet(data, "exit_reason", None),
         exit_prices         |-> DictGet(data, "exit_prices", Null),
         final_pnl           |-> DictGet(data, "final_pnl", Null)]

\* the positions of E that are really open, as indices (get_open_positions)
get_open_positions(E) ==
    SelectSeq(E.open_positions, LAMBDA i : E.positions[i].status = "open")

has_open_positions(E) == get_open_positions(E) # <<>>

RECURSIVE SumContracts(_, _)
SumContracts(E, idxs) ==
    IF idxs = <<>> THEN 0
    ELSE E.positions[Head(idxs)].contracts + SumContracts(E, Tail(idxs))

\* get_total_position_contracts(direction); None is every direction
get_total_position_contracts(E, direction) ==
    SumContracts(E, SelectSeq(get_open_positions(E),
                              LAMBDA i : direction = None
                                         \/ E.positions[i].direction = direction))

\* _save_positions: a failed write is logged and ignored
_save_positions(E, write_ok) ==
    IF write_ok
    THEN [E EXCEPT !.positions_file =
              [positions |-> [k \in 1..Len(get_open_positions(E)) |->
                                 to_dict(E.positions[get_open_positions(E)[k]])],
               position_counter |-> E.position_counter]]
    ELSE E

\* A restore that takes the number of restored positions as the counter,
\* whatever the document says
m_load_positions_counts_restored(file) ==
    LET dicts == IF file = Null THEN <<>>
                 ELSE SelectSeq(file.positions,
                                LAMBDA d : DictGet(d, "status", "open") = "open")
        restored == [k \in 1..Len(dicts) |-> from_dict(dicts[k])]
    IN  [positions        |-> restored,
         open_positions   |-> [k \in 1..Len(restored) |-> k],
         trade_history    |-> <<>>,
         position_counter |-> Len(restored),
         total_fees       |-> 0,
         total_pnl        |-> 0,
         total_volume     |-> 0,
         last_order_time  |-> 0,
         positions_file   |-> file]

\* _load_positions on a document {positions, position_counter}: the engine
\* after construction and the restore
_load_positions(file) ==
    LET dicts == IF file = Null THEN <<>>
                 ELSE SelectSeq(file.positions,
                                LAMBDA d : DictGet(d, "status", "open") = "open")
        restored == [k \in 1..Len(dicts) |-> from_dict(dicts[k])]
    IN  [positions        |-> restored,
         open_positions   |-> [k \in 1..Len(restored) |-> k],
         trade_history    |-> <<>>,
         position_counter |->
             IF file = Null THEN 0
             ELSE IF "position_counter" \in DOMAIN file THEN file.position_counter
             ELSE IF restored = <<>> THEN 0
             ELSE 1 + CHOOSE m \in {restored[k].id : k \in 1..Len(restored)} :
                          \A k \in 1..Len(restored) : restored[k].id <= m,
         total_fees       |-> 0,
         total_pnl        |-> 0,
         total_volume     |-> 0,
         last_order_time  |-> 0,
         positions_file   |-> file]

\* update_exit_targets_from_config, the second half of initialize
update_exit_targets_from_config(E, write_ok) ==
    LET new_exit_target == TRADING_CONFIG.MIN_SPREAD_EXIT
        stale(i) == /\ InSeq(i, E.open_positions)
                    /\ E.positions[i].status = "open"
                    /\ E.positions[i].exit_target # new_exit_target
        E1 == [E EXCEPT !.positions =
                  [i \in 1..Len(E.positions) |->
                      IF stale(i)
                      THEN [E.positions[i] EXCEPT !.exit_target = new_exit_target]
                      ELSE E.positions[i]]]
    IN  IF \E i \in 1..Len(E.positions) : stale(i)
        THEN _save_positions(E1, write_ok)
        ELSE E

(***************************************************************************)
(* Order pairs of the PaperTradeExecutor.  A pair suspends at the sleep    *)
(* that opens each execute_market_order; between two suspensions the code  *)
(* runs without interleaving.  A pair in flight is a record                *)
(* [kind, stage, buy_order, sell_order, tag, buy_result, ctx].             *)
(***************************************************************************)
\* a leg that was submitted and whether it filled
Leg(side, ok) == [side |-> side, ok |-> ok]

\* what a caller observes when a pair returns: legs are the legs that were
\* submitted, in order
PairReturn(caller, call, legs, result) ==
    [caller |-> caller, kind |-> call.kind, ctx |-> call.ctx,
     legs |-> legs, result |-> result]

NewPair(kind, buy_order, sell_order, tag, ctx) ==
    [kind |-> kind, stage |-> "buy", buy_order |-> buy_order,
     sell_order |-> sell_order, tag |-> tag, buy_result |-> Null, ctx |-> ctx]

\* mutant: the rollback of the buy returns its volume without its fee
m_execute_fok_pair_keeps_fee(pf, hist, call) ==
    IF call.stage = "buy"
    THEN LET r == execute_market_order(pf, call.buy_order)
         IN  IF ~r.order.success
             THEN [done |-> TRUE, portfolio |-> pf, history |-> hist,
                   call |-> call, legs |-> <<Leg("buy", FALSE)>>,
                   result |-> PairFailure(call.tag, "Buy order failed", FALSE)]
             ELSE [done |-> FALSE, portfolio |-> r.portfolio, history |-> hist,
                   call |-> [call EXCEPT !.stage = "sell", !.buy_result = r.order],
                   legs |-> <<Leg("buy", TRUE)>>, result |-> Null]
    ELSE LET r == execute_market_order(pf, call.sell_order)
             b == call.buy_result
         IN  IF ~r.order.success
             THEN [done |-> TRUE,
                   portfolio |-> [USDT |-> pf.USDT + Notional(b.price, b.amount),
                                  NVDA |-> pf.NVDA - b.amount],
                   history |-> hist, call |-> call,
                   legs |-> <<Leg("buy", TRUE), Leg("sell", FALSE)>>,
                   result |-> PairFailure(call.tag, "Sell order failed", FALSE)]
             ELSE [done |-> TRUE, portfolio |-> r.portfolio,
                   history |-> Append(hist, call.tag), call |-> call,
                   legs |-> <<Leg("buy", TRUE), Leg("sell", TRUE)>>,
                   result |-> PairSuccess(call.tag, b, r.order)]

\* execute_fok_pair resumed after a sleep: the leg of call.stage executes
\* and the code runs on to the next sleep or to the return
execute_fok_pair(pf, hist, call) ==
    IF call.stage = "buy"
    THEN LET r == execute_market_order(pf, call.buy_order)
         IN  IF ~r.order.success
             THEN [done |-> TRUE, portfolio |-> pf, history |-> hist,
                   call |-> call, legs |-> <<Leg("buy", FALSE)>>,
                   result |-> PairFailure(call.tag, "Buy order failed", FALSE)]
             ELSE [done |-> FALSE, portfolio |-> r.portfolio, history |-> hist,
                   call |-> [call EXCEPT !.stage = "sell", !.buy_result = r.order],
                   legs |-> <<Leg("buy", TRUE)>>, result |-> Null]
    ELSE LET r == execute_market_order(pf, call.sell_order)
             b == call.buy_result
         IN  IF ~r.order.success
             THEN [done |-> TRUE,
                   portfolio |-> [USDT |-> pf.USDT + Notional(b.price, b.amount) + b.fee,
                                  NVDA |-> pf.NVDA - b.amount],
                   history |-> hist, call |-> call,
                   legs |-> <<Leg("buy", TRUE), Leg("sell", FALSE)>>,
                   result |-> PairFailure(call.tag, "Sell order failed", FALSE)]
             ELSE [done |-> TRUE, portfolio |-> r.portfolio,
                   history |-> Append(hist, call.tag), call |-> call,
                   legs |-> <<Leg("buy", TRUE), Leg("sell", TRUE)>>,
                   result |-> PairSuccess(call.tag, b, r.order)]

(***************************************************************************)
(* LiveTradeExecutor.  The outcome of a leg on an exchange is an input:    *)
(* execute_hyperliquid_order and execute_bitget_order return a dict whose  *)
(* success is true or false and do not raise.                              *)
(***************************************************************************)
NewLive ==
    [initialized |-> FALSE, hyperliquid_connected |-> FALSE,
     bitget_connected |-> FALSE, trade_history |-> <<>>]

\* a leg fills when its exchange is connected and the exchange accepts it
live_leg_ok(lv, order, accepted) ==
    /\ IF order.exchange = "hyperliquid" THEN lv.hyperliquid_connected
       ELSE lv.bitget_connected
    /\ accepted

\* the dict a leg returns
live_order(order, ok) ==
    IF ok
    THEN [success |-> TRUE, exchange |-> order.exchange, side |-> order.side,
          size |-> order.amount]
    ELSE [success |-> FALSE, error |-> "rejected"]

\* mutant: a sell failure after a filled buy is returned without the flag
m_live_fok_pair_no_flag(lv, buy_order, sell_order, tag, buy_accepted, sell_accepted) ==
    LET buy_ok  == live_leg_ok(lv, buy_order, buy_accepted)
        sell_ok == live_leg_ok(lv, sell_order, sell_accepted)
    IN
    IF ~lv.initialized
    THEN [legs |-> <<>>, history |-> lv.trade_history,
          result |-> PairFailure(tag, "Executor not initialized", FALSE)]
    ELSE IF ~buy_ok
    THEN [legs |-> <<Leg("buy", FALSE)>>, history |-> lv.trade_history,
          result |-> PairFailure(tag, "Buy order failed", FALSE)]
    ELSE IF ~sell_ok
    THEN [legs |-> <<Leg("buy", TRUE), Leg("sell", FALSE)>>,
          history |-> lv.trade_history,
          result |-> PairFailure(tag, "Sell order failed", FALSE)]
    ELSE [legs |-> <<Leg("buy", TRUE), Leg("sell", TRUE)>>,
          history |-> Append(lv.trade_history, tag),
          result |-> PairSuccess(tag, live_order(buy_order, TRUE),
                                 live_order(sell_order, TRUE))]

\* mutant: the sell leg is submitted although the buy leg failed
m_live_fok_pair_sells_anyway(lv, buy_order, sell_order, tag, buy_accepted, sell_accepted) ==
    LET buy_ok  == live_leg_ok(lv, buy_order, buy_accepted)
        sell_ok == live_leg_ok(lv, sell_order, sell_accepted)
    IN
    IF ~lv.initialized
    THEN [legs |-> <<>>, history |-> lv.trade_history,
          result |-> PairFailure(tag, "Executor not initialized", FALSE)]
    ELSE IF ~buy_ok
    THEN [legs |-> <<Leg("buy", FALSE), Leg("sell", sell_ok)>>,
          history |-> lv.trade_history,
          result |-> PairFailure(tag, "Buy order failed", FALSE)]
    ELSE IF ~sell_ok
    THEN [legs |-> <<Leg("buy", TRUE), Leg("sell", FALSE)>>,
          history |-> lv.trade_history,
          result |-> PairFailure(tag, "Sell order failed", TRUE)]
    ELSE [legs |-> <<Leg("buy", TRUE), Leg("sell", TRUE)>>,
          history |-> Append(lv.trade_history, tag),
          result |-> PairSuccess(tag, live_order(buy_order, TRUE),
                                 live_order(sell_order, TRUE))]

\* execute_fok_pair_async: the legs submitted, the result and the
\* executor's trade history after the call
live_fok_pair(lv, buy_order, sell_order, tag, buy_accepted, sell_accepted) ==
    LET buy_ok  == live_leg_ok(lv, buy_order, buy_accepted)
        sell_ok == live_leg_ok(lv, sell_order, sell_accepted)
    IN
    IF ~lv.initialized
    THEN [legs |-> <<>>, history |-> lv.trade_history,
          result |-> PairFailure(tag, "Executor not initialized", FALSE)]
    ELSE IF ~buy_ok
    THEN [legs |-> <<Leg("buy", FALSE)>>, history |-> lv.trade_history,
          result |-> PairFailure(tag, "Buy order failed", FALSE)]
    ELSE IF ~sell_ok
    THEN [legs |-> <<Leg("buy", TRUE), Leg("sell", FALSE)>>,
          history |-> lv.trade_history,
          result |-> PairFailure(tag, "Sell order failed", TRUE)]
    ELSE [legs |-> <<Leg("buy", TRUE), Leg("sell", TRUE)>>,
          history |-> Append(lv.trade_history, tag),
          result |-> PairSuccess(tag, live_order(buy_order, TRUE),
                                 live_order(sell_order, TRUE))]

(***************************************************************************)
(* ArbitrageEngine operations, each cut at the order pair's suspension     *)
(***************************************************************************)
\* the unwind orders of close_position; they carry no symbol
close_orders(pos) ==
    IF pos.direction = "B_TO_H"
    THEN [sell |-> [exchange |-> "bitget", symbol |-> None, side |-> "sell",
                    amount |-> pos.contracts],
          buy  |-> [exchange |-> "hyperliquid", symbol |-> None, side |-> "buy",
                    amount |-> pos.contracts]]
    ELSE [sell |-> [exchange |-> "hyperliquid", symbol |-> None, side |-> "sell",
                    amount |-> pos.contracts],
          buy  |-> [exchange |-> "bitget", symbol |-> None, side |-> "buy",
                    amount |-> pos.contracts]]

\* the pair close_position hands to the executor for the position at idx
close_pair(E, idx, reason) ==
    LET pos == E.positions[idx]
        o   == close_orders(pos)
    IN  NewPair("exit", o.buy, o.sell, <<"exit", pos.id>>,
                [idx |-> idx, reason |-> reason])

\* mutant: the gross result is added to total_pnl
m_update_statistics_gross(E, pnl_data) ==
    [E EXCEPT !.total_fees = @ + pnl_data.fees,
              !.total_pnl = @ + pnl_data.gross]

\* close_position adds the fees and the net result of the closed trade to
\* the statistics of the engine
update_statistics(E, pnl_data) ==
    [E EXCEPT !.total_fees = @ + pnl_data.fees,
              !.total_pnl = @ + pnl_data.net]

\* mutant: a failed unwind still takes the position out of the open set
m_close_position_finish_drops_failed(E, ctx, exit_result, t, write_ok) ==
    IF ~exit_result.success
    THEN [E EXCEPT !.open_positions = RemoveFirst(@, ctx.idx)]
    ELSE LET position == E.positions[ctx.idx]
             pnl_data == calculate_trade_pnl(position, exit_result)
             closed   == [position EXCEPT
                            !.status = "closed",
                            !.exit_time = t,
                            !.exit_reason = ctx.reason,
                            !.exit_prices = [buy  |-> exit_result.buy_order.price,
                                             sell |-> exit_result.sell_order.price],
                            !.final_pnl = pnl_data]
             E1 == update_statistics(
                       [E EXCEPT !.positions[ctx.idx] = closed,
                                 !.open_positions = RemoveFirst(@, ctx.idx),
                                 !.trade_history = Append(@, ctx.idx)],
                       pnl_data)
         IN  _save_positions(E1, write_ok)

\* close_position after the pair returned exit_result at time t
close_position_finish(E, ctx, exit_result, t, write_ok) ==
    IF ~exit_result.success
    THEN E
    ELSE LET position == E.positions[ctx.idx]
             pnl_data == calculate_trade_pnl(position, exit_result)
             closed   == [position EXCEPT
                            !.status = "closed",
                            !.exit_time = t,
                            !.exit_reason = ctx.reason,
                            !.exit_prices = [buy  |-> exit_result.buy_order.price,
                                             sell |-> exit_result.sell_order.price],
                            !.final_pnl = pnl_data]
             E1 == update_statistics(
                       [E EXCEPT !.positions[ctx.idx] = closed,
                                 !.open_positions = RemoveFirst(@, ctx.idx),
                                 !.trade_history = Append(@, ctx.idx)],
                       pnl_data)
         IN  _save_positions(E1, write_ok)

\* mutant: monitor_positions visits every position of its snapshot
m_skip_position_never(E, idx) == FALSE

\* the test monitor_positions makes before it visits a snapshot position:
\* closed meanwhile, or no longer in the open set
skip_position(E, idx) ==
    E.positions[idx].status # "open" \/ ~InSeq(idx, E.open_positions)

\* monitor_positions from the k-th position of its snapshot on, up to the
\* suspension of a close or to the end.  pf is the paper portfolio, returns
\* collects the pairs that returned without suspending.
RECURSIVE monitor_run(_, _, _, _, _, _, _, _)
monitor_run(engine, snapshot, k, should_save, q, pf, returns, write_ok) ==
  \* E is the engine state the step starts from, evaluated once
  CHOOSE run \in {
    IF k > Len(snapshot)
    THEN [suspended |-> FALSE,
          E |-> IF should_save /\ E.open_positions # <<>>
                THEN _save_positions(E, write_ok) ELSE E,
          k |-> k, should_save |-> should_save, call |-> Null,
          returns |-> returns]
    ELSE LET idx == snapshot[k]
             position == E.positions[idx]
         IN  IF skip_position(E, idx)
             THEN monitor_run(E, snapshot, k + 1, should_save, q, pf, returns, write_ok)
             ELSE LET current_spread ==
                          calculate_exit_spread(position, q.bitget, q.hyper,
                                                q.bitget_slippage, q.hyper_slippage)
                      updated == update_exit_spread(position, current_spread)
                      E1 == [E EXCEPT !.positions[idx] = updated]
                      save1 == should_save \/ (updated.update_count % 10 = 0)
                      call == close_pair(E1, idx, "Exit spread reached")
                  IN  IF ~should_close(updated)
                      THEN monitor_run(E1, snapshot, k + 1, save1, q, pf, returns, write_ok)
                      ELSE IF fok_pair_has_funds(pf, call.buy_order)
                      THEN [suspended |-> TRUE, E |-> E1, k |-> k,
                            should_save |-> save1, call |-> call,
                            returns |-> returns]
                      ELSE monitor_run(E1, snapshot, k + 1, save1, q, pf,
                               Append(returns,
                                   PairReturn("loop", call, <<>>,
                                       PairFailure(call.tag, "Insufficient USDT for FOK", FALSE))),
                               write_ok)
    : E \in {engine}} : TRUE

\* the risk checks find_opportunity makes over the directions dirs, in
\* order, until one is allowed
RECURSIVE find_in(_, _, _, _, _, _, _)
find_in(dirs, spreads, ds, sl, cfg, cur, calls) ==
    IF dirs = <<>>
    THEN [opp |-> Null, ds |-> ds, calls |-> calls]
    ELSE LET direction == Head(dirs)
             data == spreads[direction]
             max_slippage == Max2(data.slippage_used.buy, data.slippage_used.sell)
             r == can_open_position_result(ds, sl, cfg, data.gross_spread, cur,
                                           max_slippage)
             ds1 == IF r.latch THEN [ds EXCEPT !.daily_limit_exceeded = TRUE] ELSE ds
             c == [args |-> [direction |-> direction, spread |-> data.gross_spread,
                             price |-> data.buy_price, cur |-> cur,
                             slippage |-> max_slippage],
                   result |-> [allowed |-> r.allowed, reason |-> r.reason],
                   latch |-> r.latch]
         IN  IF data.gross_spread >= TRADING_CONFIG.MIN_SPREAD_ENTER
             THEN IF r.allowed
                  THEN [opp |-> [direction |-> direction, data |-> data],
                        ds |-> ds1, calls |-> Append(calls, c)]
                  ELSE find_in(Tail(dirs), spreads, ds1, sl, cfg, cur, Append(calls, c))
             ELSE find_in(Tail(dirs), spreads, ds, sl, cfg, cur, calls)

m_find_opportunity_reverse_order(E, ds, sl, cfg, q, t) ==
    LET spreads == calculate_spreads(q.bitget, q.hyper,
                                     q.bitget_slippage, q.hyper_slippage)
    IN  IF E.open_positions # <<>>
        THEN [opp |-> Null, ds |-> ds, calls |-> <<>>]
        ELSE IF t - E.last_order_time < TRADING_CONFIG.MIN_ORDER_INTERVAL
        THEN [opp |-> Null, ds |-> ds, calls |-> <<>>]
        ELSE IF spreads = Null
        THEN [opp |-> Null, ds |-> ds, calls |-> <<>>]
        ELSE find_in(<<"H_TO_B", "B_TO_H">>, spreads, ds, sl, cfg,
                     get_total_position_contracts(E, None), <<>>)

\* find_opportunity at time t: the opportunity (Null: none), the daily
\* record after the risk checks and the checks made
find_opportunity(E, ds, sl, cfg, q, t) ==
    LET spreads == calculate_spreads(q.bitget, q.hyper,
                                     q.bitget_slippage, q.hyper_slippage)
    IN  IF E.open_positions # <<>>
        THEN [opp |-> Null, ds |-> ds, calls |-> <<>>]
        ELSE IF t - E.last_order_time < TRADING_CONFIG.MIN_ORDER_INTERVAL
        THEN [opp |-> Null, ds |-> ds, calls |-> <<>>]
        ELSE IF spreads = Null
        THEN [opp |-> Null, ds |-> ds, calls |-> <<>>]
        ELSE find_in(<<"B_TO_H", "H_TO_B">>, spreads, ds, sl, cfg,
                     get_total_position_contracts(E, None), <<>>)

\* the pair execute_opportunity hands to the executor; Null when the size
\* is not positive
entry_pair(E, cfg, opp) ==
    LET spread_data == opp.data
        current_contracts == get_total_position_contracts(E, opp.direction)
        position_size == calculate_position_size(cfg, spread_data.buy_price,
                                                 spread_data.gross_spread,
                                                 current_contracts)
        buy_order  == [exchange |-> spread_data.buy_exchange,
                       symbol |-> IF spread_data.buy_exchange = "bitget"
                                  THEN "NVDAUSDT" ELSE "xyz:NVDA",
                       side |-> "buy", amount |-> position_size.contracts]
        sell_order == [exchange |-> spread_data.sell_exchange,
                       symbol |-> IF spread_data.sell_exchange = "hyperliquid"
                                  THEN "xyz:NVDA" ELSE "NVDAUSDT",
                       side |-> "sell", amount |-> position_size.contracts]
    IN  IF position_size.contracts <= 0
        THEN Null
        ELSE NewPair("entry", buy_order, sell_order,
                     <<"entry", DirectionValue(opp.direction)>>,
                     [direction |-> opp.direction, data |-> spread_data,
                      contracts |-> position_size.contracts])

m_execute_opportunity_finish_evaluates(E, ctx, entry_result, t, write_ok) ==
    IF ~entry_result.success
    THEN E
    ELSE LET position ==
                 update_exit_spread(
                     NewPosition(E.position_counter, ctx.direction, ctx.contracts,
                                 [buy |-> ctx.data.buy_price,
                                  sell |-> ctx.data.sell_price],
                                 ctx.data.gross_spread,
                                 TRADING_CONFIG.MIN_SPREAD_EXIT),
                     ctx.data.gross_spread)
             E1 == [E EXCEPT !.positions = Append(@, position),
                             !.open_positions = Append(@, Len(E.positions) + 1),
                             !.position_counter = @ + 1,
                             !.total_volume = @ + Notional(ctx.data.buy_price, ctx.contracts),
                             !.last_order_time = t]
         IN  _save_positions(E1, write_ok)

\* execute_opportunity after the pair returned entry_result at time t.  A
\* position id pos_NNNNNN is the number NNNNNN.
execute_opportunity_finish(E, ctx, entry_result, t, write_ok) ==
    IF ~entry_result.success
    THEN E
    ELSE LET position ==
                 NewPosition(E.position_counter, ctx.direction, ctx.contracts,
                             [buy |-> ctx.data.buy_price, sell |-> ctx.data.sell_price],
                             ctx.data.gross_spread, TRADING_CONFIG.MIN_SPREAD_EXIT)
             E1 == [E EXCEPT !.positions = Append(@, position),
                             !.open_positions = Append(@, Len(E.positions) + 1),
                             !.position_counter = @ + 1,
                             !.total_volume = @ + Notional(ctx.data.buy_price, ctx.contracts),
                             !.last_order_time = t]
         IN  _save_positions(E1, write_ok)

(***************************************************************************)
(* The program: the decision loop, the dashboard handlers and the clock,   *)
(* as cooperative tasks of one event loop.  A task is idle or suspended in *)
(* an order pair.                                                          *)
(***************************************************************************)
\* bounds of the exploration
MaxPositions == 2

MaxTicks == 2

MaxTime == 6

IdleLoop ==
    [pc |-> "idle", snapshot |-> <<>>, k |-> 0, should_save |-> FALSE,
     q |-> Null, call |-> Null]

IdleDash == [pc |-> "idle", call |-> Null]

\* has_bitget_data and has_hyper_data of active_trading_mode
has_market_data(q) ==
    /\ q.bitget # Null /\ has_bid_ask(q.bitget)
    /\ q.hyper # Null /\ has_bid_ask(q.hyper)

\* the observation after the pairs in returns came back in this step
ObservePairs(returns) ==
    IF returns = <<>> THEN last_pair
    ELSE [seq |-> 1 - last_pair.seq, returns |-> returns]

\* active_trading_mode with open positions: monitor_positions up to its
\* first suspension
monitor_positions(q, write_ok) ==
    /\ loop.pc = "idle"
    /\ has_market_data(q)
    /\ has_open_positions(Engine)
    /\ ticks < MaxTicks
    /\ \E r \in {monitor_run(Engine, open_positions, 1, FALSE, q, portfolio,
                             <<>>, write_ok)} :
           /\ SetEngine(r.E)
           /\ loop' = IF r.suspended
                      THEN [pc |-> "pair", snapshot |-> open_positions, k |-> r.k,
                            should_save |-> r.should_save, q |-> q, call |-> r.call]
                      ELSE IdleLoop
           /\ last_pair' = ObservePairs(r.returns)
    /\ ticks' = ticks + 1
    /\ UNCHANGED <<feedVars, today, last_entry, botVars, riskVars, riskObs, paperVars, liveVars, dash, now>>

\* active_trading_mode without open positions: find_opportunity and
\* execute_opportunity up to the suspension of the entry pair
open_opportunity(q, write_ok) ==
    /\ loop.pc = "idle"
    /\ has_market_data(q)
    /\ ~has_open_positions(Engine)
    /\ Len(positions) < MaxPositions
    /\ LET f == find_opportunity(Engine, daily_stats, session_loss, config, q, now)
           call == IF f.opp = Null THEN Null ELSE entry_pair(Engine, config, f.opp)
           funded == call # Null /\ fok_pair_has_funds(portfolio, call.buy_order)
           last == f.calls[Len(f.calls)]
       IN  /\ f.calls # <<>>
           /\ daily_stats' = f.ds
           /\ daily_stats_file' =
                  IF \E i \in 1..Len(f.calls) : f.calls[i].latch
                  THEN save_daily_stats(f.ds, write_ok) ELSE daily_stats_file
           /\ last_call' = [op |-> "can_open_position", seq |-> 1 - last_call.seq,
                            args |-> last.args, result |-> last.result]
           /\ loop' = IF funded
                      THEN [IdleLoop EXCEPT !.pc = "pair", !.q = q, !.call = call]
                      ELSE IdleLoop
           /\ last_pair' =
                  IF call # Null /\ ~funded
                  THEN ObservePairs(<<PairReturn("loop", call, <<>>,
                           PairFailure(call.tag, "Insufficient USDT for FOK", FALSE))>>)
                  ELSE last_pair
           /\ last_entry' = IF funded
                            THEN [last_entry EXCEPT !.time = now, !.seq = 1 - @]
                            ELSE last_entry
    /\ UNCHANGED <<feedVars, today, botVars, config, session_loss, total_trades, max_drawdown,
                   recorded_loss, engineVars, paperVars, liveVars, dash, now,
                   ticks>>

\* the loop is resumed after the sleep of an order leg: the leg executes;
\* when the pair returns, execute_opportunity or close_position runs to its
\* end and monitor_positions goes on to its next suspension
loop_resume(write_ok) ==
    /\ loop.pc = "pair"
    /\ \E s \in {execute_fok_pair(portfolio, paper_trade_history, loop.call)} :
       \E ret \in {<<PairReturn("loop", loop.call, s.legs, s.result)>>} :
           /\ portfolio' = s.portfolio
           /\ paper_trade_history' = s.history
           /\ last_entry' = IF s.done /\ loop.call.kind = "entry" /\ s.result.success
                            THEN [last_entry EXCEPT !.id = position_counter]
                            ELSE last_entry
           /\ IF ~s.done
              THEN /\ loop' = [loop EXCEPT !.call = s.call]
                   /\ UNCHANGED <<engineVars, last_pair>>
              ELSE IF loop.call.kind = "entry"
              THEN /\ SetEngine(execute_opportunity_finish(Engine, loop.call.ctx,
                                                           s.result, now, write_ok))
                   /\ loop' = IdleLoop
                   /\ last_pair' = ObservePairs(ret)
              ELSE \E closed \in {close_position_finish(Engine, loop.call.ctx,
                                                          s.result, now,
                                                          write_ok)} :
                   \E r \in {monitor_run(closed, loop.snapshot, loop.k + 1,
                                           loop.should_save, loop.q,
                                           s.portfolio, ret, write_ok)} :
                   /\ SetEngine(r.E)
                   /\ loop' = IF r.suspended
                              THEN [loop EXCEPT !.k = r.k,
                                                !.should_save = r.should_save,
                                                !.call = r.call]
                              ELSE IdleLoop
                   /\ last_pair' = ObservePairs(r.returns)
    /\ UNCHANGED <<feedVars, today, botVars, riskVars, riskObs, liveVars, dash, now,
                   ticks>>

\* WebDashboardServer.close_position(position_id) up to the suspension of
\* the unwind pair
dashboard_close_position(position_id) ==
    LET matches == SelectSeq(get_open_positions(Engine),
                             LAMBDA i : positions[i].id = position_id)
        call == close_pair(Engine, Head(matches),
                           "FORCE: Manual close via dashboard")
        funded == fok_pair_has_funds(portfolio, call.buy_order)
    IN  /\ dash.pc = "idle"
        /\ matches # <<>>
        /\ dash' = IF funded THEN [pc |-> "pair", call |-> call] ELSE IdleDash
        /\ last_pair' =
               IF funded THEN last_pair
               ELSE ObservePairs(<<PairReturn("dash", call, <<>>,
                        PairFailure(call.tag, "Insufficient USDT for FOK", FALSE))>>)
        /\ UNCHANGED <<feedVars, today, last_entry, botVars, riskVars, riskObs, engineVars, paperVars, liveVars, loop,
                       now, ticks>>

\* the dashboard handler is resumed after the sleep of an order leg
dashboard_resume(write_ok) ==
    /\ dash.pc = "pair"
    /\ \E s \in {execute_fok_pair(portfolio, paper_trade_history, dash.call)} :
           /\ portfolio' = s.portfolio
           /\ paper_trade_history' = s.history
           /\ IF ~s.done
              THEN /\ dash' = [dash EXCEPT !.call = s.call]
                   /\ UNCHANGED <<engineVars, last_pair>>
              ELSE /\ SetEngine(close_position_finish(Engine, dash.call.ctx,
                                                      s.result, now, write_ok))
                   /\ dash' = IdleDash
                   /\ last_pair' = ObservePairs(<<PairReturn("dash", dash.call,
                                                             s.legs, s.result)>>)
    /\ UNCHANGED <<feedVars, today, last_entry, botVars, riskVars, riskObs, liveVars, loop, now, ticks>>

\* WebDashboardServer.update_position_exit_spread(position_id, new_exit_spread)
update_position_exit_spread(position_id, new_exit_spread) ==
    LET matches == SelectSeq(get_open_positions(Engine),
                             LAMBDA i : positions[i].id = position_id)
    IN  /\ matches # <<>>
        /\ positions[Head(matches)].exit_target # new_exit_spread
        /\ positions' = [positions EXCEPT ![Head(matches)].exit_target = new_exit_spread]
        /\ UNCHANGED <<riskVars, riskObs, open_positions, trade_history,
                       position_counter, total_fees, total_pnl, total_volume,
                       last_order_time, positions_file, paperVars, liveVars,
                       taskVars, feedVars, today, last_entry, botVars>>

\* time.time() advances; the clock is read in steps of MIN_ORDER_INTERVAL
TimePasses ==
    /\ now + TRADING_CONFIG.MIN_ORDER_INTERVAL <= MaxTime
    /\ now' = now + TRADING_CONFIG.MIN_ORDER_INTERVAL
    /\ UNCHANGED <<riskVars, riskObs, engineVars, paperVars, liveVars, loop,
                   dash, ticks, last_pair, feedVars, today, last_entry, botVars>>

(***************************************************************************)
(* Start of the program                                                    *)
(***************************************************************************)
\* market states: hyperliquid above bitget (a B->H entry, the exit of an
\* H->B position) and bitget above hyperliquid inside the entry threshold
\* (the exit of a B->H position)
QuoteWide ==
    [bitget |-> [bid |-> 1710000, ask |-> 1710200],
     hyper  |-> [bid |-> 1713000, ask |-> 1713200],
     bitget_slippage |-> Null, hyper_slippage |-> Null]

QuoteConverged ==
    [bitget |-> [bid |-> 1711000, ask |-> 1711200],
     hyper  |-> [bid |-> 1710000, ask |-> 1710200],
     bitget_slippage |-> Null, hyper_slippage |-> Null]

Quotes == {QuoteWide, QuoteConverged}

\* a positions.json left by an earlier run: a B->H position monitored eight
\* times and an H->B position just opened
SavedLedger ==
    [positions |->
        << to_dict([NewPosition(0, "B_TO_H", 100,
                                [buy |-> 1710371, sell |-> 1712829], 143,
                                TRADING_CONFIG.MIN_SPREAD_EXIT)
                    EXCEPT !.current_exit_spread = -207,
                           !.spread_history = <<143, -207, -207, -207, -207,
                                                -207, -207, -207, -207>>,
                           !.update_count = 8]),
           to_dict(NewPosition(1, "H_TO_B", 100,
                               [buy |-> 1711371, sell |-> 1712829], 85,
                               TRADING_CONFIG.MIN_SPREAD_EXIT)) >>,
     position_counter |-> 2]

LedgerFiles == {Null, SavedLedger}

\* paper portfolios at start: the initial deposit, and balances restored
\* from paper_portfolio.json that cover one unwind but not two at once, or
\* the estimate of the balance check but not the buy leg of an entry
Portfolios ==
    {[USDT |-> 1000 * USD, NVDA |-> 0],
     [USDT |-> 2 * USD, NVDA |-> 0],
     [USDT |-> 1710200, NVDA |-> 0]}

ExitTargetArgs == {-250}

\* the position the dashboard edits the exit target of
ExitTargetIds == {0}

\* outcomes of a write of positions.json
WriteOutcomes == {TRUE}

Init ==
    /\ config = RISK_CONFIG
    /\ daily_stats = NewDailyStats
    /\ session_loss = 0
    /\ total_trades = 0
    /\ max_drawdown = 0
    /\ daily_stats_file = Null
    /\ last_call = [op |-> None, seq |-> 0, args |-> Null, result |-> Null]
    /\ recorded_loss = 0
    /\ \E file \in LedgerFiles :
           SetEngineInit(update_exit_targets_from_config(_load_positions(file), TRUE))
    /\ portfolio \in Portfolios
    /\ paper_trade_history = <<>>
    /\ live = NewLive
    /\ loop = IdleLoop
    /\ dash = IdleDash
    /\ now = TRADING_CONFIG.MIN_ORDER_INTERVAL
    /\ ticks = 0
    /\ last_pair = [seq |-> 0, returns |-> <<>>]
    /\ FeedRegistered
    /\ today = 0
    /\ last_entry = NoEntry
    /\ BotCreated

Next ==
    \/ \E q \in Quotes, w \in WriteOutcomes : monitor_positions(q, w)
    \/ \E q \in Quotes, w \in WriteOutcomes : open_opportunity(q, w)
    \/ \E w \in WriteOutcomes : loop_resume(w)
    \/ \E id \in 0..(MaxPositions - 1) : dashboard_close_position(id)
    \/ \E w \in WriteOutcomes : dashboard_resume(w)
    \/ \E id \in ExitTargetIds, v \in ExitTargetArgs :
           update_position_exit_spread(id, v)
    \/ TimePasses

Spec == Init /\ [][Next]_vars

(***************************************************************************)
(* The order executors under the calls of any caller                       *)
(***************************************************************************)
MaxPairs == 2

\* LiveTradeExecutor.initialize
live_initialize(hl_success, bg_success) ==
    /\ ~live.initialized
    /\ live' = [live EXCEPT !.hyperliquid_connected = hl_success,
                            !.bitget_connected = bg_success,
                            !.initialized = hl_success \/ bg_success]
    /\ UNCHANGED <<feedVars, today, last_entry, botVars, riskVars, riskObs, engineVars, paperVars, taskVars>>

\* LiveTradeExecutor.execute_fok_pair_async(buy_order, sell_order, tag)
live_execute_fok_pair_async(call, buy_accepted, sell_accepted) ==
    LET r == live_fok_pair(live, call.buy_order, call.sell_order, call.tag,
                           buy_accepted, sell_accepted)
    IN  /\ Len(live.trade_history) < MaxPairs
        /\ live' = [live EXCEPT !.trade_history = r.history]
        /\ last_pair' = ObservePairs(<<PairReturn("live", call, r.legs, r.result)>>)
        /\ UNCHANGED <<feedVars, today, last_entry, botVars, riskVars, riskObs, engineVars, paperVars, loop, dash,
                       now, ticks>>

\* PaperTradeExecutor.execute_fok_pair_async(buy_order, sell_order, tag)
\* run from its call to its return with no other task in between
paper_fok_pair(pf, hist, call) ==
    LET buy  == execute_fok_pair(pf, hist, call)
        sell == execute_fok_pair(buy.portfolio, buy.history, buy.call)
    IN  IF ~fok_pair_has_funds(pf, call.buy_order)
        THEN [done |-> TRUE, portfolio |-> pf, history |-> hist, call |-> call,
              legs |-> <<>>,
              result |-> PairFailure(call.tag, "Insufficient USDT for FOK", FALSE)]
        ELSE IF buy.done THEN buy ELSE sell

paper_execute_fok_pair_async(call) ==
    LET r == paper_fok_pair(portfolio, paper_trade_history, call)
    IN  /\ Len(paper_trade_history) < MaxPairs
        /\ portfolio' = r.portfolio
        /\ paper_trade_history' = r.history
        /\ last_pair' = ObservePairs(<<PairReturn("paper", call, r.legs, r.result)>>)
        /\ UNCHANGED <<feedVars, today, last_entry, botVars, riskVars, riskObs, engineVars, liveVars, loop, dash,
                       now, ticks>>

\* the pairs the engine builds: the entry at QuoteWide with no position
\* open, and the unwinds of the positions of SavedLedger
EnginePairs ==
    LET E0  == _load_positions(Null)
        E2  == _load_positions(SavedLedger)
        opp == find_opportunity(E0, NewDailyStats, 0, RISK_CONFIG, QuoteWide,
                                TRADING_CONFIG.MIN_ORDER_INTERVAL).opp
    IN  {entry_pair(E0, RISK_CONFIG, opp),
         close_pair(E2, 1, "Exit spread reached"),
         close_pair(E2, 2, "FORCE: Manual close via dashboard")}

\* a pair of another caller that sells more than it buys
UnbalancedPairs ==
    {[c EXCEPT !.sell_order.amount = 2 * c.buy_order.amount] :
        c \in {close_pair(_load_positions(SavedLedger), 1, "Exit spread reached")}}

InitExec ==
    /\ config = RISK_CONFIG
    /\ daily_stats = NewDailyStats
    /\ session_loss = 0
    /\ total_trades = 0
    /\ max_drawdown = 0
    /\ daily_stats_file = Null
    /\ last_call = [op |-> None, seq |-> 0, args |-> Null, result |-> Null]
    /\ recorded_loss = 0
    /\ SetEngineInit(_load_positions(SavedLedger))
    /\ portfolio \in Portfolios
    /\ paper_trade_history = <<>>
    /\ live = NewLive
    /\ loop = IdleLoop
    /\ dash = IdleDash
    /\ now = TRADING_CONFIG.MIN_ORDER_INTERVAL
    /\ ticks = 0
    /\ last_pair = [seq |-> 0, returns |-> <<>>]
    /\ FeedRegistered
    /\ today = 0
    /\ last_entry = NoEntry
    /\ BotCreated

NextExec ==
    \/ \E hl \in BOOLEAN, bg \in BOOLEAN : live_initialize(hl, bg)
    \/ \E c \in EnginePairs \cup UnbalancedPairs, b \in BOOLEAN, s \in BOOLEAN :
           live_execute_fok_pair_async(c, b, s)
    \/ \E c \in EnginePairs \cup UnbalancedPairs : paper_execute_fok_pair_async(c)

SpecExec == InitExec /\ [][NextExec]_vars

(***************************************************************************)
(* The RiskManager under arbitrary calls                                   *)
(***************************************************************************)
Directions == {"B_TO_H", "H_TO_B"}

\* argument values that exercise every check of can_open_position
SpreadArgs == {50, 144}
ContractArgs == {0, 150, 200}
SlippageArgs == {10, 20}
PriceArgs == {1710371}
PnlArgs == {-60 * USD, -40 * USD, 30 * USD}
VolumeArgs == {1710371}

\* configurations: the shipped one, a misconfigured maximum, a larger clip
RiskConfigs ==
    {RISK_CONFIG,
     [RISK_CONFIG EXCEPT !.MAX_POSITION_CONTRACTS = 0]}

InitRisk ==
    /\ config \in RiskConfigs
    /\ daily_stats = NewDailyStats
    /\ session_loss = 0
    /\ total_trades = 0
    /\ max_drawdown = 0
    /\ daily_stats_file = Null
    /\ last_call = [op |-> None, seq |-> 0, args |-> Null, result |-> Null]
    /\ recorded_loss = 0
    /\ SetEngineInit(_load_positions(Null))
    /\ portfolio = [USDT |-> 1000 * USD, NVDA |-> 0]
    /\ paper_trade_history = <<>>
    /\ live = NewLive
    /\ loop = IdleLoop
    /\ dash = IdleDash
    /\ now = TRADING_CONFIG.MIN_ORDER_INTERVAL
    /\ ticks = 0
    /\ last_pair = [seq |-> 0, returns |-> <<>>]
    /\ FeedRegistered
    /\ today = 0
    /\ last_entry = NoEntry
    /\ BotCreated

CanOpenCall ==
    /\ \E d \in Directions, s \in SpreadArgs, p \in PriceArgs,
          c \in ContractArgs, sl \in SlippageArgs, w \in BOOLEAN :
           can_open_position(d, s, p, c, sl, w)
    /\ UNCHANGED <<feedVars, today, last_entry, botVars, engineVars, paperVars, liveVars, taskVars>>

RecordCall ==
    /\ \E pnl \in PnlArgs, v \in VolumeArgs, w \in BOOLEAN :
           record_trade_result(pnl, v, w)
    /\ UNCHANGED <<feedVars, today, last_entry, botVars, engineVars, paperVars, liveVars, taskVars>>

NextRisk == CanOpenCall \/ RecordCall

SpecRisk == InitRisk /\ [][NextRisk]_vars

(***************************************************************************)
(* Claims about the RiskManager (checked under SpecRisk)                   *)
(***************************************************************************)
\* the step is a call of the RiskManager method op
IsCall(op) == last_call'.seq # last_call.seq /\ last_call'.op = op

DailyLossReasons == {"Daily loss limit exceeded", "Daily loss limit reached"}

\* C6: whenever daily_limit_exceeded is already latched, can_open_position
\* returns (False, "Daily loss limit exceeded") whatever the direction,
\* spread, price, current size and slippage, and changes no state of the
\* RiskManager (nor the persisted daily record).
C6_LatchedRejects ==
    [][(daily_stats.daily_limit_exceeded /\ IsCall("can_open_position"))
          => /\ last_call'.result =
                  [allowed |-> FALSE, reason |-> "Daily loss limit exceeded"]
             /\ UNCHANGED riskVars]_vars

\* a latched manager has rejected a call whose spread, size and slippage
\* would pass every other check
C6_Witness ==
    /\ daily_stats.daily_limit_exceeded
    /\ last_call.op = "can_open_position"
    /\ last_call.args.spread = 144
    /\ last_call.args.cur = 0
    /\ last_call.args.slippage = 10
    /\ config.MAX_POSITION_CONTRACTS > 0
    /\ last_call.result.reason = "Daily loss limit exceeded"

\* C7: once the losses given to record_trade_result today reach
\* MAX_DAILY_LOSS, daily_limit_exceeded is true from that call on: no later
\* record_trade_result (gain or loss) and no can_open_position clears it,
\* and every later can_open_position is rejected with a daily-loss reason.
C7_LatchSticks ==
    [][/\ (recorded_loss' >= config.MAX_DAILY_LOSS
             => daily_stats'.daily_limit_exceeded)
       /\ (daily_stats.daily_limit_exceeded
             => daily_stats'.daily_limit_exceeded)
       /\ ((recorded_loss >= config.MAX_DAILY_LOSS /\ IsCall("can_open_position"))
             => /\ ~last_call'.result.allowed
                /\ last_call'.result.reason \in DailyLossReasons)]_vars

\* losses of 60 and 40 (exactly the limit) were recorded, then a gain, and
\* the latch is still set
C7_Witness ==
    /\ recorded_loss = 100 * USD
    /\ config.MAX_DAILY_LOSS = 100 * USD
    /\ last_call.op = "record_trade_result"
    /\ last_call.args.pnl = 30 * USD
    /\ daily_stats.daily_limit_exceeded

\* C8 (as claimed): the daily-loss check of can_open_position rejects and
\* latches only when the loss accrued today (the sum of the losing pnls given
\* to record_trade_result) has reached MAX_DAILY_LOSS; below the limit there
\* is no daily-loss rejection and no latch.
C8_LatchOnlyAtLimit ==
    /\ (daily_stats.daily_limit_exceeded
          => recorded_loss >= config.MAX_DAILY_LOSS)
    /\ ((last_call.op = "can_open_position"
         /\ last_call.result.reason \in DailyLossReasons)
          => recorded_loss >= config.MAX_DAILY_LOSS)

\* the seven checks of can_open_position in the claimed order, each with the
\* condition under which it fails and its reason
C10_Checks(ds, sl, cfg, a) ==
    << [fails |-> ds.daily_limit_exceeded,
        reason |-> "Daily loss limit exceeded"],
       [fails |-> Abs(ds.total_loss + sl) >= cfg.MAX_DAILY_LOSS,
        reason |-> "Daily loss limit reached"],
       [fails |-> a.spread < TRADING_CONFIG.MIN_SPREAD_ENTER,
        reason |-> "Spread too low"],
       [fails |-> cfg.MAX_POSITION_CONTRACTS <= 0,
        reason |-> "Max position size is zero or negative"],
       [fails |-> a.cur >= cfg.MAX_POSITION_CONTRACTS,
        reason |-> "Max position reached"],
       [fails |-> a.cur + cfg.MIN_ORDER_CONTRACTS
                    > cfg.MAX_POSITION_CONTRACTS + CapacityEpsilon,
        reason |-> "No capacity for minimal order"],
       [fails |-> a.slippage > cfg.MAX_SLIPPAGE,
        reason |-> "Slippage too high"] >>

C10_FirstFailing(checks) ==
    IF \E i \in 1..Len(checks) : checks[i].fails
    THEN LET i == CHOOSE k \in 1..Len(checks) :
                    /\ checks[k].fails
                    /\ \A j \in 1..(k - 1) : ~checks[j].fails
         IN  [allowed |-> FALSE, reason |-> checks[i].reason]
    ELSE [allowed |-> TRUE, reason |-> "OK"]

\* C10: can_open_position evaluates (1) latch, (2) daily loss figure at the
\* limit, (3) spread below the entry threshold, (4) maximum size <= 0,
\* (5) current size >= maximum, (6) no room for a minimal order,
\* (7) slippage above the maximum, in this order; it returns the reason of
\* the first failing check and allows exactly when none fails.  Check (2)
\* is taken on the figure the manager evaluates, total_loss + session_loss.
C10_FirstFailingCheckWins ==
    [][IsCall("can_open_position")
          => last_call'.result =
               C10_FirstFailing(C10_Checks(daily_stats, session_loss, config,
                                           last_call'.args))]_vars

\* a call failing checks (3), (5) and (7) at once got the reason of (3)
C10_Witness ==
    /\ last_call.op = "can_open_position"
    /\ last_call.args.spread = 50
    /\ last_call.args.cur = 200
    /\ last_call.args.slippage = 20
    /\ config.MAX_POSITION_CONTRACTS = 200
    /\ last_call.result = [allowed |-> FALSE, reason |-> "Spread too low"]

\* a call failing only (6) and (7) got the reason of (6)
C10_WitnessCapacity ==
    /\ last_call.op = "can_open_position"
    /\ last_call.args.cur = 150
    /\ last_call.args.slippage = 20
    /\ last_call.result = [allowed |-> FALSE, reason |-> "No capacity for minimal order"]

\* a call passing all seven checks was allowed
C10_WitnessAllowed ==
    /\ last_call.op = "can_open_position"
    /\ last_call.result = [allowed |-> TRUE, reason |-> "OK"]

(***************************************************************************)
(* Claims about closing positions (checked under Spec)                     *)
(***************************************************************************)
\* the step returned at least one order pair to its caller
IsPairStep == last_pair'.seq # last_pair.seq

\* number of occurrences of x in the sequence s
Count(s, x) == Cardinality({i \in 1..Len(s) : s[i] = x})

\* sum of the figure named field of the final PnL of the closed positions
\* among the first n
RECURSIVE SumFinal(_, _, _)
SumFinal(ps, n, field) ==
    IF n = 0 THEN 0
    ELSE SumFinal(ps, n - 1, field)
         + (IF ps[n].status = "closed" THEN ps[n].final_pnl[field] ELSE 0)

\* C1 (as claimed): close_position is idempotent against the monitoring
\* loop and a dashboard close interleaving at the order pair: the unwind pair
\* of a position is executed at most once, the position is in the trade
\* history at most once, and its net PnL and fees are in the aggregates
\* exactly once.
C1_CloseAtMostOnce ==
    /\ \A i \in 1..Len(positions) :
          /\ Count(trade_history, i) <= 1
          /\ Count(paper_trade_history, <<"exit", positions[i].id>>) <= 1
    /\ total_pnl = SumFinal(positions, Len(positions), "net")
    /\ total_fees = SumFinal(positions, Len(positions), "fees")

\* the fields of a position that close_position sets
Terminal(pos) ==
    <<pos.status, pos.exit_time, pos.exit_reason, pos.exit_prices, pos.final_pnl>>

\* C4 (as claimed): a closed position stays closed and its exit_time,
\* exit_reason, exit_prices and final_pnl are never written again, whatever
\* the engine does next.
C4_ClosedIsTerminal ==
    [][\A i \in 1..Len(positions) :
          positions[i].status = "closed"
             => Terminal(positions'[i]) = Terminal(positions[i])]_vars

\* the pairs returned in the step all failed
AllFailed(returns) == \A k \in 1..Len(returns) : ~returns[k].result.success

\* a position reached a multiple of ten updates in the step, or the
\* monitoring pass already had a save pending
PeriodicSaveDue ==
    \/ loop.should_save
    \/ \E i \in 1..Len(positions) :
          /\ positions'[i].update_count # positions[i].update_count
          /\ positions'[i].update_count % 10 = 0

\* C5: when the unwind pair of close_position fails, close_position changes
\* nothing: the position keeps its status (an open position stays open and
\* in open_positions), its terminal fields stay as they were, and the trade
\* history, total_pnl, total_fees and positions.json are not modified.  A
\* failed close from the dashboard leaves the whole engine unchanged; in the
\* monitoring loop the only writes of the step are those of
\* monitor_positions itself (the spread update and its periodic save).
C5_FailedCloseChangesNothing ==
    [][IsPairStep =>
          \A k \in 1..Len(last_pair'.returns) :
              LET ret == last_pair'.returns[k]
                  i   == ret.ctx.idx
              IN  (ret.kind = "exit" /\ ~ret.result.success) =>
                    /\ Terminal(positions'[i]) = Terminal(positions[i])
                    /\ InSeq(i, open_positions') = InSeq(i, open_positions)
                    /\ ret.caller = "dash" => UNCHANGED engineVars
                    /\ AllFailed(last_pair'.returns) =>
                          /\ UNCHANGED <<open_positions, trade_history, total_pnl,
                                         total_fees, position_counter>>
                          /\ positions_file' # positions_file => PeriodicSaveDue]_vars

\* the buy leg of an unwind failed after the balance check had passed, and
\* the position is still open and in the open set
C5_Witness ==
    /\ last_pair.returns # <<>>
    /\ LET ret == last_pair.returns[1]
       IN  /\ ret.kind = "exit"
           /\ ret.legs = <<Leg("buy", FALSE)>>
           /\ ~ret.result.success
           /\ positions[ret.ctx.idx].status = "open"
           /\ InSeq(ret.ctx.idx, open_positions)

\* an unwind was refused by the balance check in a monitoring pass
C5_WitnessBalanceCheck ==
    /\ last_pair.returns # <<>>
    /\ LET ret == last_pair.returns[1]
       IN  /\ ret.kind = "exit"
           /\ ret.caller = "loop"
           /\ ret.legs = <<>>
           /\ positions[ret.ctx.idx].status = "open"

\* C9 (as claimed): every successful close_position calls
\* RiskManager.record_trade_result with the net PnL of the closed position
\* before the close operation ends.
C9_CloseRecordsResult ==
    [][IsPairStep =>
          \A k \in 1..Len(last_pair'.returns) :
              LET ret == last_pair'.returns[k]
              IN  (ret.kind = "exit" /\ ret.result.success) =>
                    /\ IsCall("record_trade_result")
                    /\ last_call'.args.pnl = positions'[ret.ctx.idx].final_pnl.net]_vars

(***************************************************************************)
(* Claims about the order pair (checked under SpecExec)                    *)
(***************************************************************************)
\* the engine operation that receives the failed result ret leaves the
\* engine as it is: no position is created, none is changed, no counter or
\* aggregate moves
EngineKeeps(ret) ==
    IF ret.kind = "entry"
    THEN execute_opportunity_finish(Engine, ret.ctx, ret.result, now, TRUE) = Engine
    ELSE close_position_finish(Engine, ret.ctx, ret.result, now, TRUE) = Engine

SellLegFailed(ret) == ret.legs = <<Leg("buy", TRUE), Leg("sell", FALSE)>>

C2_WitnessPaper ==
    /\ last_pair.returns # <<>>
    /\ last_pair.returns[1].caller = "paper"
    /\ SellLegFailed(last_pair.returns[1])

\* C3: an order pair submits the buy leg before the sell leg; when the buy
\* leg fails the sell leg is not submitted, the result is a failure without
\* requires_manual_intervention and the engine creates no position; the
\* result has success = true exactly when both legs filled.
C3_BuyLegFirst ==
    \A k \in 1..Len(last_pair.returns) :
        LET ret  == last_pair.returns[k]
            legs == ret.legs
        IN  /\ Len(legs) <= 2
            /\ Len(legs) >= 1 => legs[1].side = "buy"
            /\ Len(legs) = 2 => legs[1].ok /\ legs[2].side = "sell"
            /\ (Len(legs) >= 1 /\ ~legs[1].ok) =>
                  /\ Len(legs) = 1
                  /\ ~ret.result.success
                  /\ ~ret.result.requires_manual_intervention
            /\ ret.result.success <=>
                  (Len(legs) = 2 /\ legs[1].ok /\ legs[2].ok)
            /\ ~ret.result.success => EngineKeeps(ret)

\* the initialized live executor returned an entry pair whose buy leg failed
C3_Witness ==
    /\ last_pair.returns # <<>>
    /\ live.initialized
    /\ last_pair.returns[1].caller = "live"
    /\ last_pair.returns[1].kind = "entry"
    /\ last_pair.returns[1].legs = <<Leg("buy", FALSE)>>

\* a pair succeeded with both legs filled
C3_WitnessSuccess ==
    /\ last_pair.returns # <<>>
    /\ last_pair.returns[1].result.success
    /\ last_pair.returns[1].legs = <<Leg("buy", TRUE), Leg("sell", TRUE)>>

(***************************************************************************)
(* RiskManager.calculate_position_size under arbitrary configurations      *)
(***************************************************************************)
\* configurations: maximum size, minimal order and safety multiplier vary
\* (the multiplier in hundredths; config.py ships 0.8 and nothing validates it)
SizingConfigs ==
    {[RISK_CONFIG EXCEPT !.MAX_POSITION_CONTRACTS = m,
                         !.MIN_ORDER_CONTRACTS = n,
                         !.SAFETY_MULTIPLIER = k] :
        m \in {0, 100, 200}, n \in {50, 100}, k \in {80, 100, 150}}

SizingContractArgs == {0, 50, 100, 150, 200, 250}

InitSizing ==
    /\ config \in SizingConfigs
    /\ daily_stats = NewDailyStats
    /\ session_loss = 0
    /\ total_trades = 0
    /\ max_drawdown = 0
    /\ daily_stats_file = Null
    /\ last_call = [op |-> None, seq |-> 0, args |-> Null, result |-> Null]
    /\ recorded_loss = 0
    /\ SetEngineInit(_load_positions(Null))
    /\ portfolio = [USDT |-> 1000 * USD, NVDA |-> 0]
    /\ paper_trade_history = <<>>
    /\ live = NewLive
    /\ loop = IdleLoop
    /\ dash = IdleDash
    /\ now = TRADING_CONFIG.MIN_ORDER_INTERVAL
    /\ ticks = 0
    /\ last_pair = [seq |-> 0, returns |-> <<>>]
    /\ FeedRegistered
    /\ today = 0
    /\ last_entry = NoEntry
    /\ BotCreated

\* a call of RiskManager.calculate_position_size; it reads the configuration
\* and changes nothing
SizingCall ==
    /\ \E p \in PriceArgs, s \in SpreadArgs, c \in SizingContractArgs :
           last_call' = [op |-> "calculate_position_size",
                         seq |-> 1 - last_call.seq,
                         args |-> [price |-> p, spread |-> s, cur |-> c],
                         result |-> calculate_position_size(config, p, s, c)]
    /\ UNCHANGED <<config, daily_stats, session_loss, total_trades,
                   max_drawdown, daily_stats_file, recorded_loss>>
    /\ UNCHANGED <<feedVars, today, last_entry, botVars, engineVars, paperVars, liveVars, taskVars>>

NextSizing == SizingCall

SpecSizing == InitSizing /\ [][NextSizing]_vars

\* C11: for every current size >= 0 and every configuration (maximum size,
\* minimal order, safety multiplier) calculate_position_size returns a size
\* s with current + s <= MAX_POSITION_CONTRACTS, and s = 0 when no capacity
\* remains.  (Where the current size already exceeds the maximum no s >= 0
\* can satisfy the inequality; there the claim is read as its second half.)
C11_SizeWithinCapacity ==
    last_call.op = "calculate_position_size"
        => LET remaining_capacity ==
                   config.MAX_POSITION_CONTRACTS - last_call.args.cur
           IN  IF remaining_capacity <= 0
               THEN last_call.result.contracts = 0
               ELSE last_call.args.cur + last_call.result.contracts
                        <= config.MAX_POSITION_CONTRACTS

(***************************************************************************)
(* The ArbitrageEngine under arbitrary calls of find_opportunity,          *)
(* execute_opportunity and close_position, each awaited to its end         *)
(***************************************************************************)
MaxEntries == 3

\* the mirror image of QuoteWide: hyperliquid cheap, bitget dear
QuoteWideReverse ==
    [bitget |-> [bid |-> 1713000, ask |-> 1713200],
     hyper  |-> [bid |-> 1710000, ask |-> 1710200],
     bitget_slippage |-> Null, hyper_slippage |-> Null]

EngineQuotes == {QuoteWide, QuoteWideReverse, QuoteConverged}

\* the (direction, spread_data) tuples find_opportunity returns on the empty
\* ledger; a caller may hand any of them to execute_opportunity
EngineOpportunities ==
    {find_opportunity(_load_positions(Null), NewDailyStats, 0, RISK_CONFIG, q,
                      TRADING_CONFIG.MIN_ORDER_INTERVAL).opp :
        q \in EngineQuotes} \ {Null}

InitEngine ==
    /\ config = RISK_CONFIG
    /\ daily_stats = NewDailyStats
    /\ session_loss = 0
    /\ total_trades = 0
    /\ max_drawdown = 0
    /\ daily_stats_file = Null
    /\ last_call = [op |-> None, seq |-> 0, args |-> Null, result |-> Null]
    /\ recorded_loss = 0
    /\ SetEngineInit(_load_positions(Null))
    /\ portfolio = [USDT |-> 1000 * USD, NVDA |-> 0]
    /\ paper_trade_history = <<>>
    /\ live = NewLive
    /\ loop = IdleLoop
    /\ dash = IdleDash
    /\ now = TRADING_CONFIG.MIN_ORDER_INTERVAL
    /\ ticks = 0
    /\ last_pair = [seq |-> 0, returns |-> <<>>]
    /\ FeedRegistered
    /\ today = 0
    /\ last_entry = NoEntry
    /\ BotCreated

\* ArbitrageEngine.find_opportunity(bitget_data, hyper_data, ...)
engine_find_opportunity(q, write_ok) ==
    LET f == find_opportunity(Engine, daily_stats, session_loss, config, q, now)
    IN  /\ daily_stats' = f.ds
        /\ daily_stats_file' =
               IF \E i \in 1..Len(f.calls) : f.calls[i].latch
               THEN save_daily_stats(f.ds, write_ok) ELSE daily_stats_file
        /\ last_call' = [op |-> "find_opportunity", seq |-> 1 - last_call.seq,
                         args |-> q, result |-> f.opp]
        /\ UNCHANGED <<feedVars, today, last_entry, botVars, config, session_loss, total_trades, max_drawdown,
                       recorded_loss, engineVars, paperVars, liveVars, taskVars>>

\* await ArbitrageEngine.execute_opportunity(opportunity)
engine_execute_opportunity(opp, write_ok) ==
    LET call == entry_pair(Engine, config, opp)
        r    == paper_fok_pair(portfolio, paper_trade_history, call)
    IN  /\ Len(positions) < MaxEntries
        /\ position_counter < MaxEntries
        /\ last_call' = [op |-> "execute_opportunity", seq |-> 1 - last_call.seq,
                         args |-> opp,
                         result |-> [success |-> call # Null /\ r.result.success,
                                     written |-> /\ call # Null
                                                 /\ r.result.success
                                                 /\ write_ok]]
        /\ IF call = Null
           THEN UNCHANGED <<engineVars, paperVars, last_pair, last_entry>>
           ELSE /\ portfolio' = r.portfolio
                /\ paper_trade_history' = r.history
                /\ last_pair' = ObservePairs(<<PairReturn("loop", call, r.legs,
                                                          r.result)>>)
                /\ last_entry' =
                       IF r.legs = <<>> THEN last_entry
                       ELSE [last_entry EXCEPT
                                !.time = now, !.seq = 1 - @,
                                !.id = IF r.result.success THEN position_counter
                                       ELSE @]
                /\ SetEngine(execute_opportunity_finish(Engine, call.ctx, r.result,
                                                        now, write_ok))
        /\ UNCHANGED <<feedVars, today, botVars, riskVars, recorded_loss, liveVars,
                       loop, dash, now, ticks>>

\* await ArbitrageEngine.close_position(position, reason) for the position
\* object at idx
engine_close_position(idx, reason, write_ok) ==
    LET call == close_pair(Engine, idx, reason)
        r    == paper_fok_pair(portfolio, paper_trade_history, call)
    IN  /\ idx \in 1..Len(positions)
        /\ last_call' = [op |-> "close_position", seq |-> 1 - last_call.seq,
                         args |-> [idx |-> idx, reason |-> reason],
                         result |-> [success |-> positions[idx].status = "open"
                                                 /\ r.result.success,
                                     written |-> /\ positions[idx].status = "open"
                                                 /\ r.result.success
                                                 /\ write_ok]]
        /\ IF positions[idx].status # "open"
           THEN UNCHANGED <<engineVars, paperVars, last_pair>>
           ELSE /\ portfolio' = r.portfolio
                /\ paper_trade_history' = r.history
                /\ last_pair' = ObservePairs(<<PairReturn("loop", call, r.legs,
                                                          r.result)>>)
                /\ SetEngine(close_position_finish(Engine, call.ctx, r.result,
                                                   now, write_ok))
        /\ UNCHANGED <<feedVars, today, last_entry, botVars, riskVars, recorded_loss, liveVars, loop, dash, now, ticks>>

\* market data as the feeds can hand it over: the hyperliquid book with an
\* empty ask side or an empty bid side (best price 0), no hyperliquid
\* snapshot yet, and a bitget dict that carries no bid and ask
QuoteNoAsks ==
    [QuoteConverged EXCEPT !.hyper = [bid |-> 1710000, ask |-> 0]]

QuoteNoBids ==
    [QuoteConverged EXCEPT !.hyper = [bid |-> 0, ask |-> 1710200]]

QuoteNoFeed == [QuoteConverged EXCEPT !.hyper = Null]

QuoteNoKeys == [QuoteConverged EXCEPT !.bitget = [last |-> 1711100]]

\* markets at which the exit spread of a B->H position is -0.020 (the exit
\* target), -0.021 (the target less the epsilon) and -0.022
QuoteAtTarget ==
    [bitget |-> [bid |-> 1710000, ask |-> 1710200],
     hyper  |-> [bid |-> 1709800, ask |-> 1710000],
     bitget_slippage |-> Null, hyper_slippage |-> Null]

QuoteAtEpsilon == [QuoteAtTarget EXCEPT !.bitget.bid = 1709990]

QuoteBelowEpsilon == [QuoteAtTarget EXCEPT !.bitget.bid = 1709970]

MonitorQuotes ==
    {QuoteWide, QuoteConverged, QuoteNoAsks, QuoteNoBids, QuoteNoFeed, QuoteNoKeys,
     QuoteAtTarget, QuoteAtEpsilon, QuoteBelowEpsilon}

\* monitor_positions from the k-th position of its snapshot to its end, each
\* close_position awaited; closes collects the positions close_position was
\* called for.  (Each intermediate result is bound as the element of a
\* singleton, so that it is computed once.)
RECURSIVE monitor_await(_, _, _, _, _, _, _, _, _, _)
monitor_await(E, snapshot, k, should_save, q, pf, hist, returns, closes, write_ok) ==
    CHOOSE out \in
        { LET declined == SubSeq(r.returns, Len(returns) + 1, Len(r.returns))
              seen == closes \o [j \in 1..Len(declined) |-> declined[j].ctx.idx]
          IN  IF ~r.suspended
              THEN [E |-> r.E, portfolio |-> pf, history |-> hist,
                    returns |-> r.returns, closes |-> seen]
              ELSE CHOOSE next \in
                       { monitor_await(
                             close_position_finish(r.E, r.call.ctx, p.result, now,
                                                   write_ok),
                             snapshot, r.k + 1, r.should_save, q, p.portfolio,
                             p.history,
                             Append(r.returns,
                                    PairReturn("loop", r.call, p.legs, p.result)),
                             Append(seen, r.call.ctx.idx), write_ok) :
                         p \in {paper_fok_pair(pf, hist, r.call)} } : TRUE :
          r \in {monitor_run(E, snapshot, k, should_save, q, pf, returns,
                             write_ok)} } : TRUE

\* await ArbitrageEngine.monitor_positions(bitget_data, hyper_data, ...)
engine_monitor_positions(q, write_ok) ==
    /\ ticks < MaxTicks
    /\ open_positions # <<>>
    /\ ticks' = ticks + 1
    /\ \E r \in {monitor_await(Engine, open_positions, 1, FALSE, q, portfolio,
                                paper_trade_history, <<>>, <<>>, write_ok)} :
           /\ SetEngine(r.E)
           /\ portfolio' = r.portfolio
           /\ paper_trade_history' = r.history
           /\ last_pair' = ObservePairs(r.returns)
           /\ last_call' = [op |-> "monitor_positions", seq |-> 1 - last_call.seq,
                            args |-> q, result |-> [closes |-> r.closes]]
    /\ UNCHANGED <<feedVars, today, last_entry, botVars, riskVars, recorded_loss, liveVars, loop,
                   dash, now>>

\* markets with crossed books, where both directions clear the entry
\* threshold; in the second the estimated slippage of a bitget buy is above
\* MAX_SLIPPAGE
QuoteCrossed ==
    [bitget |-> [bid |-> 1713000, ask |-> 1710200],
     hyper  |-> [bid |-> 1713200, ask |-> 1710000],
     bitget_slippage |-> Null, hyper_slippage |-> Null]

QuoteCrossedSlippage ==
    [QuoteCrossed EXCEPT !.bitget_slippage =
         [buy |-> RISK_CONFIG.MAX_SLIPPAGE + 10,
          sell |-> TRADING_CONFIG.MARKET_SLIPPAGE]]

FindQuotes ==
    EngineQuotes \cup {QuoteCrossed, QuoteCrossedSlippage, QuoteNoAsks,
                       QuoteNoBids, QuoteNoFeed, QuoteNoKeys}

NextEngine ==
    \/ \E q \in FindQuotes, w \in WriteOutcomes : engine_find_opportunity(q, w)
    \/ \E o \in EngineOpportunities, w \in WriteOutcomes :
           engine_execute_opportunity(o, w)
    \/ \E i \in 1..MaxEntries, w \in WriteOutcomes :
           engine_close_position(i, "Exit spread reached", w)

SpecEngine == InitEngine /\ [][NextEngine]_vars

\* the engine opening positions and monitoring them
NextMonitor ==
    \/ \E o \in EngineOpportunities, w \in WriteOutcomes :
           engine_execute_opportunity(o, w)
    \/ \E q \in MonitorQuotes, w \in WriteOutcomes : engine_monitor_positions(q, w)

SpecMonitor == InitEngine /\ [][NextMonitor]_vars

\* C12: after any sequence of find_opportunity / execute_opportunity /
\* close_position calls from an empty ledger under a fixed configuration,
\* the contracts of the open positions sum to at most
\* MAX_POSITION_CONTRACTS.
C12_OpenContractsBounded ==
    get_total_position_contracts(Engine, None) <= config.MAX_POSITION_CONTRACTS

(***************************************************************************)
(* One feed: the WebSocketManager entry of a connection, its               *)
(* reconnect_connection tasks on the event loop, and the                   *)
(* BaseWebSocketClient with its _run_forever threads.  A task is created,  *)
(* in its one-second sleep before start(), or in its backoff sleep; a      *)
(* thread is connecting (inside ws.run_forever before on_open), open, or   *)
(* in the backoff sleep of _reconnect.                                     *)
(***************************************************************************)
\* max_attempts of reconnect_connection
max_attempts == 10

\* BaseWebSocketClient.max_reconnect_attempts
max_reconnect_attempts == 10

\* bounds of the exploration
MaxTasks == 1

MaxThreads == 1

RemoveAt(s, i) == [k \in 1..(Len(s) - 1) |-> IF k < i THEN s[k] ELSE s[k + 1]]

\* BaseWebSocketClient.disconnect: ws.close() makes run_forever return in
\* its own thread later
client_disconnect(c) == [c EXCEPT !.stop_flag = TRUE, !.connected = FALSE]

\* BaseWebSocketClient.start: a new thread, then the wait of up to ten
\* seconds for on_open; opened: the connection came up within the wait
client_start(c, thr, opened) ==
    [client  |-> [c EXCEPT !.stop_flag = FALSE,
                           !.reconnecting = FALSE,
                           !.connected = opened,
                           !.reconnect_attempts = IF opened THEN 0 ELSE @],
     threads |-> Append(thr, IF opened THEN "open" ELSE "connecting"),
     result  |-> opened]

\* BaseWebSocketClient._reconnect up to its sleep or return, then the test
\* of the while loop of _run_forever: the client and where the thread is
\* next ("exit": the thread ends)
client_reconnect(c) ==
    IF c.reconnecting \/ c.stop_flag
    THEN [client |-> c, pc |-> IF c.stop_flag THEN "exit" ELSE "connecting"]
    ELSE IF c.reconnect_attempts + 1 > max_reconnect_attempts
    THEN [client |-> [c EXCEPT !.reconnecting = TRUE,
                               !.reconnect_attempts = @ + 1,
                               !.stop_flag = TRUE],
          pc |-> "exit"]
    ELSE [client |-> [c EXCEPT !.reconnecting = TRUE,
                               !.reconnect_attempts = @ + 1],
          pc |-> "backoff"]

\* BaseWebSocketClient.is_healthy; recent: the last message is younger
\* than 2 * heartbeat_interval
is_healthy(c, recent) == c.connected /\ recent

\* mutant: the loop runs one attempt past max_attempts
m_reconnect_loop_next_no_cap(attempt) ==
    IF attempt <= max_attempts
    THEN [exhausted |-> FALSE, attempt |-> attempt + 1]
    ELSE [exhausted |-> TRUE, attempt |-> attempt]

\* the for loop of reconnect_connection after the backoff sleep of the
\* attempt: the next attempt, or the loop is exhausted
reconnect_loop_next(attempt) ==
    IF attempt < max_attempts
    THEN [exhausted |-> FALSE, attempt |-> attempt + 1]
    ELSE [exhausted |-> TRUE, attempt |-> attempt]

NewTask == [pc |-> "created", attempt |-> 0]

coreVars == <<riskVars, riskObs, engineVars, paperVars, liveVars, taskVars,
              today, last_entry, botVars>>

\* the owner of the client starts it (as main.py does at start-up)
feed_start(opened) ==
    LET s == client_start(client, threads, opened)
    IN  /\ ~stopped
        /\ threads = <<>>
        /\ tasks = <<>>
        /\ ~client.stop_flag
        /\ client' = s.client
        /\ threads' = s.threads
        /\ UNCHANGED <<conn, tasks, stopped, coreVars>>

\* _on_open in the thread i
thread_open(i) ==
    /\ i \in 1..Len(threads)
    /\ threads[i] = "connecting"
    /\ threads' = [threads EXCEPT ![i] = "open"]
    /\ client' = [client EXCEPT !.connected = TRUE, !.reconnect_attempts = 0]
    /\ UNCHANGED <<conn, tasks, stopped, coreVars>>

\* ws.run_forever returns in the thread i (the connection failed, dropped
\* or was closed): _on_close with the disconnect callback of
\* register_connection, then _reconnect unless stopped.  The callback runs
\* on_connection_disconnected in the feed thread, where asyncio.create_task
\* finds no running loop: the state is written, no task is created.
thread_close(i) ==
    /\ i \in 1..Len(threads)
    /\ threads[i] \in {"connecting", "open"}
    /\ LET r == client_reconnect([client EXCEPT !.connected = FALSE])
       IN  /\ client' = r.client
           /\ threads' = IF r.pc = "exit" THEN RemoveAt(threads, i)
                         ELSE [threads EXCEPT ![i] = r.pc]
    /\ conn' = [conn EXCEPT !.state = "DISCONNECTED"]
    /\ UNCHANGED <<tasks, stopped, coreVars>>

\* the sleep of _reconnect ends in the thread i
thread_wake(i) ==
    /\ i \in 1..Len(threads)
    /\ threads[i] = "backoff"
    /\ client' = [client EXCEPT !.connected = FALSE, !.reconnecting = FALSE]
    /\ threads' = IF client.stop_flag THEN RemoveAt(threads, i)
                  ELSE [threads EXCEPT ![i] = "connecting"]
    /\ UNCHANGED <<conn, tasks, stopped, coreVars>>

\* WebSocketManager.on_connection_disconnected(name), called on the event
\* loop
on_connection_disconnected ==
    /\ ~stopped
    /\ conn' = [conn EXCEPT !.state = "DISCONNECTED"]
    /\ tasks' = Append(tasks, NewTask)
    /\ UNCHANGED <<client, threads, stopped, coreVars>>

\* mutant: the loop of reconnect_connection goes on after its last attempt
m_reconnect_connection_unbounded(i, opened) ==
    /\ i \in 1..Len(tasks)
    /\ \/ /\ tasks[i].pc = "created"
          /\ IF conn.state = "CONNECTING"
             THEN /\ tasks' = [tasks EXCEPT ![i].pc = "done"]
                  /\ UNCHANGED <<conn, client>>
             ELSE /\ conn' = [conn EXCEPT !.state = "CONNECTING",
                                          !.reconnect_attempts = @ + 1]
                  /\ client' = client_disconnect(client)
                  /\ tasks' = [tasks EXCEPT ![i] = [pc |-> "sleep1", attempt |-> 1]]
          /\ UNCHANGED threads
       \/ /\ tasks[i].pc = "sleep1"
          /\ Len(threads) < MaxThreads
          /\ LET s == client_start(client, threads, opened)
             IN  /\ client' = s.client
                 /\ threads' = s.threads
                 /\ IF s.result
                    THEN /\ conn' = [conn EXCEPT !.state = "CONNECTED",
                                                 !.reconnect_attempts = 0]
                         /\ tasks' = [tasks EXCEPT ![i].pc = "done"]
                    ELSE /\ tasks' = [tasks EXCEPT ![i].pc = "backoff"]
                         /\ UNCHANGED conn
       \/ /\ tasks[i].pc = "backoff"
          /\ LET n == reconnect_loop_next(tasks[i].attempt)
             IN  IF FALSE
                 THEN /\ conn' = [conn EXCEPT !.state = "ERROR"]
                      /\ tasks' = [tasks EXCEPT ![i].pc = "done"]
                      /\ UNCHANGED client
                 ELSE /\ client' = client_disconnect(client)
                      /\ tasks' = [tasks EXCEPT ![i] = [pc |-> "sleep1",
                                                        attempt |-> n.attempt]]
                      /\ UNCHANGED conn
          /\ UNCHANGED threads
    /\ UNCHANGED <<stopped, coreVars>>

\* the task i of reconnect_connection runs from one suspension to the next
reconnect_connection(i, opened) ==
    /\ i \in 1..Len(tasks)
    /\ \/ /\ tasks[i].pc = "created"
          /\ IF conn.state = "CONNECTING"
             THEN /\ tasks' = [tasks EXCEPT ![i].pc = "done"]
                  /\ UNCHANGED <<conn, client>>
             ELSE /\ conn' = [conn EXCEPT !.state = "CONNECTING",
                                          !.reconnect_attempts = @ + 1]
                  /\ client' = client_disconnect(client)
                  /\ tasks' = [tasks EXCEPT ![i] = [pc |-> "sleep1", attempt |-> 1]]
          /\ UNCHANGED threads
       \/ /\ tasks[i].pc = "sleep1"
          /\ Len(threads) < MaxThreads
          /\ LET s == client_start(client, threads, opened)
             IN  /\ client' = s.client
                 /\ threads' = s.threads
                 /\ IF s.result
                    THEN /\ conn' = [conn EXCEPT !.state = "CONNECTED",
                                                 !.reconnect_attempts = 0]
                         /\ tasks' = [tasks EXCEPT ![i].pc = "done"]
                    ELSE /\ tasks' = [tasks EXCEPT ![i].pc = "backoff"]
                         /\ UNCHANGED conn
       \/ /\ tasks[i].pc = "backoff"
          /\ LET n == reconnect_loop_next(tasks[i].attempt)
             IN  IF n.exhausted
                 THEN /\ conn' = [conn EXCEPT !.state = "ERROR"]
                      /\ tasks' = [tasks EXCEPT ![i].pc = "done"]
                      /\ UNCHANGED client
                 ELSE /\ client' = client_disconnect(client)
                      /\ tasks' = [tasks EXCEPT ![i] = [pc |-> "sleep1",
                                                        attempt |-> n.attempt]]
                      /\ UNCHANGED conn
          /\ UNCHANGED threads
    /\ UNCHANGED <<stopped, coreVars>>

\* WebSocketManager.check_connection_health(name)
check_connection_health(recent) ==
    /\ ~stopped
    /\ is_healthy(client, recent)
    /\ conn.state # "CONNECTED"
    /\ conn' = [conn EXCEPT !.state = "CONNECTED"]
    /\ UNCHANGED <<tasks, client, threads, stopped, coreVars>>

\* WebSocketManager.stop_all
stop_all ==
    /\ ~stopped
    /\ client' = client_disconnect(client)
    /\ conn' = [conn EXCEPT !.state = "DISCONNECTED"]
    /\ stopped' = TRUE
    /\ UNCHANGED <<tasks, threads, coreVars>>

InitFeed ==
    /\ config = RISK_CONFIG
    /\ daily_stats = NewDailyStats
    /\ session_loss = 0
    /\ total_trades = 0
    /\ max_drawdown = 0
    /\ daily_stats_file = Null
    /\ last_call = [op |-> None, seq |-> 0, args |-> Null, result |-> Null]
    /\ recorded_loss = 0
    /\ SetEngineInit(_load_positions(Null))
    /\ portfolio = [USDT |-> 1000 * USD, NVDA |-> 0]
    /\ paper_trade_history = <<>>
    /\ live = NewLive
    /\ loop = IdleLoop
    /\ dash = IdleDash
    /\ now = TRADING_CONFIG.MIN_ORDER_INTERVAL
    /\ ticks = 0
    /\ last_pair = [seq |-> 0, returns |-> <<>>]
    /\ FeedRegistered
    /\ today = 0
    /\ last_entry = NoEntry
    /\ BotCreated

NextFeed ==
    \/ \E o \in BOOLEAN : feed_start(o)
    \/ \E i \in 1..MaxThreads : thread_open(i)
    \/ \E i \in 1..MaxThreads : thread_close(i)
    \/ \E i \in 1..MaxThreads : thread_wake(i)
    \/ Len(tasks) < MaxTasks /\ on_connection_disconnected
    \/ \E i \in 1..MaxTasks, o \in BOOLEAN : reconnect_connection(i, o)
    \/ \E r \in BOOLEAN : check_connection_health(r)
    \/ stop_all

SpecFeed == InitFeed /\ [][NextFeed]_vars

(***************************************************************************)
(* Claims about the feed (checked under SpecFeed)                          *)
(***************************************************************************)
\* the task i is resumed in this step
TaskSteps(i) == i \in 1..Len(tasks) /\ tasks'[i] # tasks[i]

\* start() is called in this step: a thread is added
StartCalled == Len(threads') > Len(threads)

\* the thread i goes into the backoff sleep of _reconnect in this step
EntersBackoff(i) ==
    /\ i \in 1..Len(threads)
    /\ Len(threads') = Len(threads)
    /\ threads[i] # "backoff"
    /\ threads'[i] = "backoff"

\* C13: within one reconnection episode (one run of reconnect_connection,
\* one run of a client thread since its last on_open) there are at most ten
\* failed reconnect attempts: the loop of the manager never goes past
\* attempt 10, after its tenth failed attempt it sets ERROR, ends and calls
\* start() no more, and the client never sleeps for an attempt beyond the
\* tenth but sets stop_flag and ends its thread.
C13_AttemptsCapped ==
    /\ [](\A i \in 1..Len(tasks) : tasks[i].attempt <= max_attempts)
    /\ [][\A i \in 1..MaxTasks :
            (/\ TaskSteps(i)
             /\ tasks[i].pc = "backoff"
             /\ tasks[i].attempt = max_attempts)
               => /\ conn'.state = "ERROR"
                  /\ tasks'[i].pc = "done"
                  /\ ~StartCalled
                  /\ UNCHANGED client]_vars
    /\ [][/\ \A i \in 1..MaxThreads :
               EntersBackoff(i)
                  => client'.reconnect_attempts <= max_reconnect_attempts
          /\ (/\ client'.reconnect_attempts # client.reconnect_attempts
              /\ client'.reconnect_attempts > max_reconnect_attempts)
                 => /\ client'.stop_flag
                    /\ \A i \in 1..MaxThreads : ~EntersBackoff(i)
                    /\ Len(threads') < Len(threads)]_vars

\* the loop of the manager gave up after its tenth failed attempt
C13_Witness ==
    /\ conn.state = "ERROR"
    /\ \E i \in 1..Len(tasks) :
           tasks[i] = [pc |-> "done", attempt |-> max_attempts]

\* the task i starts a reconnect attempt in this step
StartsAttempt(i) ==
    /\ i \in 1..Len(tasks')
    /\ tasks'[i].pc = "sleep1"
    /\ (i > Len(tasks) \/ tasks[i].pc # "sleep1")

\* C14: the state becomes ERROR only when a reconnect loop has used up its
\* ten attempts, and ERROR is terminal for the manager: while the state is
\* ERROR no step of a health check, a disconnect event or a reconnect loop
\* changes the state, creates a reconnect task, starts an attempt or calls
\* start().
C14_ErrorTerminal ==
    /\ [][(conn'.state = "ERROR" /\ conn.state # "ERROR")
             => \E i \in 1..Len(tasks) :
                    /\ TaskSteps(i)
                    /\ tasks[i].pc = "backoff"
                    /\ tasks[i].attempt = max_attempts]_vars
    /\ [][conn.state = "ERROR"
             => /\ conn'.state = "ERROR"
                /\ Len(tasks') = Len(tasks)
                /\ \A i \in 1..MaxTasks : ~StartsAttempt(i)
                /\ ~StartCalled]_vars

\* C15: after stop_all no reconnection attempt is started or continued: no
\* reconnect task goes on (a loop in progress is cancelled), start() is not
\* called, and the connection state is not moved to CONNECTING or CONNECTED.
C15_NoReconnectAfterStop ==
    [][stopped
          => /\ \A i \in 1..MaxTasks : ~TaskSteps(i)
             /\ ~StartCalled
             /\ (conn'.state \in {"CONNECTING", "CONNECTED"}
                    => conn'.state = conn.state)]_vars

(***************************************************************************)
(* The RiskManager over restarts of the process and changes of the         *)
(* calendar date                                                           *)
(***************************************************************************)
MaxDay == 1

\* bounds the run: no further result is recorded once the losses recorded
\* on one day have passed twice the daily limit
MaxRecordedLoss == 2 * RISK_CONFIG.MAX_DAILY_LOSS

DayPnlArgs == {-60 * USD}

InitRiskDays ==
    /\ config = RISK_CONFIG
    /\ daily_stats = NewDailyStats
    /\ session_loss = 0
    /\ total_trades = 0
    /\ max_drawdown = 0
    /\ daily_stats_file = Null
    /\ last_call = [op |-> None, seq |-> 0, args |-> Null, result |-> Null]
    /\ recorded_loss = 0
    /\ SetEngineInit(_load_positions(Null))
    /\ portfolio = [USDT |-> 1000 * USD, NVDA |-> 0]
    /\ paper_trade_history = <<>>
    /\ live = NewLive
    /\ loop = IdleLoop
    /\ dash = IdleDash
    /\ now = TRADING_CONFIG.MIN_ORDER_INTERVAL
    /\ ticks = 0
    /\ last_pair = [seq |-> 0, returns |-> <<>>]
    /\ FeedRegistered
    /\ today = 0
    /\ last_entry = NoEntry
    /\ BotCreated

\* can_open_position for an entry that passes every check but the daily ones
DayCanOpenCall ==
    /\ \E w \in BOOLEAN :
           can_open_position("B_TO_H", 144, 1710371, 0, 10, w)
    /\ UNCHANGED <<feedVars, today, last_entry, botVars, engineVars, paperVars, liveVars, taskVars>>

DayRecordCall ==
    /\ recorded_loss < MaxRecordedLoss
    /\ \E pnl \in DayPnlArgs, v \in VolumeArgs, w \in BOOLEAN :
           record_trade_result(pnl, v, w)
    /\ UNCHANGED <<feedVars, today, last_entry, botVars, engineVars, paperVars, liveVars, taskVars>>

\* the process is restarted: RiskManager.__init__ on the day today
risk_restart ==
    /\ daily_stats' = _load_daily_stats(daily_stats_file, today)
    /\ session_loss' = 0
    /\ total_trades' = 0
    /\ max_drawdown' = 0
    /\ last_call' = [op |-> "__init__", seq |-> 1 - last_call.seq,
                     args |-> [date |-> today, file |-> daily_stats_file],
                     result |-> Null]
    /\ UNCHANGED <<config, daily_stats_file, recorded_loss, feedVars, today, last_entry, botVars,
                   engineVars, paperVars, liveVars, taskVars>>

\* midnight passes while the process runs; recorded_loss is the loss
\* recorded on the current day
date_changes ==
    /\ today < MaxDay
    /\ today' = today + 1
    /\ recorded_loss' = 0
    /\ UNCHANGED <<riskVars, last_call, feedVars, engineVars, paperVars,
                   liveVars, taskVars, last_entry, botVars>>

NextRiskDays == DayCanOpenCall \/ DayRecordCall \/ risk_restart \/ date_changes

SpecRiskDays == InitRiskDays /\ [][NextRiskDays]_vars

\* C16: when the calendar date changes while the process runs, the daily
\* record (total_loss, total_trades, consecutive_losses,
\* daily_limit_exceeded) is reset: a can_open_position called on a day
\* later than the record's works on a fresh record of that day, so a latch
\* of the day before does not reject it with a daily-loss reason (the
\* losses recorded on the new day being below the limit).
C16_DateChangeResets ==
    [][(/\ IsCall("can_open_position")
        /\ daily_stats.date # today
        /\ recorded_loss < config.MAX_DAILY_LOSS)
          => /\ ~daily_stats'.daily_limit_exceeded
             /\ last_call'.result.reason \notin DailyLossReasons]_vars

QuoteUnavailable(q) ==
    \/ q.bitget = Null \/ q.hyper = Null
    \/ ~has_bid_ask(q.bitget) \/ ~has_bid_ask(q.hyper)
    \/ q.bitget.bid = 0 \/ q.bitget.ask = 0
    \/ q.hyper.bid = 0 \/ q.hyper.ask = 0

\* the positions monitor_positions visits
IsMonitored(i) ==
    /\ i \in 1..Len(positions)
    /\ positions[i].status = "open"
    /\ InSeq(i, open_positions)

\* C18: when the market data of a feed is unavailable (no quote, missing
\* bid/ask, or a zero price), monitor_positions leaves current_exit_spread
\* of every open position at its previous value, and it calls
\* close_position only for a position whose previous value already met
\* should_close.
C18_UnavailableKeepsSpread ==
    [][IsCall("monitor_positions") /\ QuoteUnavailable(last_call'.args)
       => \A i \in 1..Len(positions) :
              IsMonitored(i)
              => /\ positions'[i].current_exit_spread
                        = positions[i].current_exit_spread
                 /\ InSeq(i, last_call'.result.closes)
                        => should_close(positions[i])]_vars

C19_WitnessEpsilon ==
    /\ last_call.op = "monitor_positions"
    /\ \E i \in 1..Len(positions) :
           /\ InSeq(i, last_call.result.closes)
           /\ positions[i].current_exit_spread
                  = positions[i].exit_target - CloseEpsilon

\* a tick wrote a spread just under the tolerance and left the position open
C19_WitnessKept ==
    /\ last_call.op = "monitor_positions"
    /\ \E i \in 1..Len(positions) :
           /\ ~InSeq(i, last_call.result.closes)
           /\ positions[i].current_exit_spread
                  = positions[i].exit_target - CloseEpsilon - 1
           /\ positions[i].status = "open"

(***************************************************************************)
(* Claims about find_opportunity                                           *)
(***************************************************************************)
\* the direction clears the entry threshold and can_open_position admits it
\* in the state before the call
Qualifies(spreads, direction) ==
    LET data == spreads[direction]
    IN  /\ data.gross_spread >= TRADING_CONFIG.MIN_SPREAD_ENTER
        /\ can_open_position_result(daily_stats, session_loss, config,
               data.gross_spread, get_total_position_contracts(Engine, None),
               Max2(data.slippage_used.buy, data.slippage_used.sell)).allowed

C20_WitnessSecond ==
    /\ last_call.op = "find_opportunity"
    /\ last_call.args = QuoteCrossedSlippage
    /\ last_call.result # Null
    /\ last_call.result.direction = "H_TO_B"

\* only B_TO_H clears the threshold and it was returned
C20_WitnessOnlyFirst ==
    /\ last_call.op = "find_opportunity"
    /\ last_call.args = QuoteWide
    /\ last_call.result # Null
    /\ last_call.result.direction = "B_TO_H"

\* no direction qualifies, or the spreads cannot be computed: nothing
\* returned
C20_WitnessNothing ==
    /\ last_call.op = "find_opportunity"
    /\ last_call.args \in {QuoteConverged, QuoteNoAsks}
    /\ last_call.result = Null
    /\ positions = <<>>

(***************************************************************************)
(* Claims about the decision loop                                          *)
(***************************************************************************)
\* C21: two consecutive entry pairs submitted by the decision loop are at
\* least MIN_ORDER_INTERVAL apart, whether or not the earlier one filled
\* (find_opportunity returns nothing inside the interval).
C21_EntriesSpaced ==
    [][/\ last_entry'.seq # last_entry.seq
       /\ last_entry.time # NoTime
       => last_entry'.time - last_entry.time
              >= TRADING_CONFIG.MIN_ORDER_INTERVAL]_vars

\* a step of a tick of active_trading_mode that searches and executes an
\* entry, and a step of a tick that monitors the open positions
EntryTickStep ==
    \/ loop.pc = "idle" /\ loop'.pc = "pair" /\ loop'.call.kind = "entry"
    \/ loop.pc = "pair" /\ loop.call.kind = "entry"

MonitorTickStep ==
    \/ ticks' # ticks
    \/ loop.pc = "pair" /\ loop.call.kind = "close"

C22_WitnessLater ==
    /\ last_entry.time # NoTime
    /\ positions # <<>>
    /\ positions[Len(positions)].id = position_counter - 1
    /\ positions[Len(positions)].update_count > 0
    /\ paper_trade_history # <<>>
    /\ paper_trade_history[1][1] = "entry"

(***************************************************************************)
(* The ledger: the engine opening, monitoring and closing positions, the   *)
(* dashboard editing an exit target, and the process restarting from       *)
(* positions.json.  A write of the file may fail.                          *)
(***************************************************************************)
\* a positions.json of an older format: no current_exit_spread, status,
\* update_count or closing fields, and no position_counter; the first
\* position has no history, the second one a history of two spreads
LegacyLedger ==
    [positions |->
        << [id |-> 0, direction |-> "B->H", contracts |-> 100,
            entry_prices |-> [buy |-> 1710371, sell |-> 1712829],
            entry_spread |-> 143,
            exit_target |-> TRADING_CONFIG.MIN_SPREAD_EXIT],
           [id |-> 1, direction |-> "H2B", contracts |-> 100,
            entry_prices |-> [buy |-> 1711371, sell |-> 1712829],
            entry_spread |-> 85,
            exit_target |-> TRADING_CONFIG.MIN_SPREAD_EXIT,
            spread_history |-> <<85, -10>>] >>]

StoredLedgers == {Null, SavedLedger, LegacyLedger}

\* ArbitrageEngine.initialize
initialize(file, write_ok) ==
    update_exit_targets_from_config(_load_positions(file), write_ok)

InitLedger ==
    /\ config = RISK_CONFIG
    /\ daily_stats = NewDailyStats
    /\ session_loss = 0
    /\ total_trades = 0
    /\ max_drawdown = 0
    /\ daily_stats_file = Null
    /\ last_call = [op |-> None, seq |-> 0, args |-> Null, result |-> Null]
    /\ recorded_loss = 0
    /\ \E file \in StoredLedgers : SetEngineInit(initialize(file, TRUE))
    /\ portfolio = [USDT |-> 1000 * USD, NVDA |-> 0]
    /\ paper_trade_history = <<>>
    /\ live = NewLive
    /\ loop = IdleLoop
    /\ dash = IdleDash
    /\ now = TRADING_CONFIG.MIN_ORDER_INTERVAL
    /\ ticks = 0
    /\ last_pair = [seq |-> 0, returns |-> <<>>]
    /\ FeedRegistered
    /\ today = 0
    /\ last_entry = NoEntry
    /\ BotCreated

\* the process ends and is started again: ArbitrageEngine.__init__ and
\* initialize() on the positions.json that is on disk
engine_restart(write_ok) ==
    /\ ticks < MaxTicks
    /\ ticks' = ticks + 1
    /\ SetEngine(initialize(positions_file, write_ok))
    /\ last_call' = [op |-> "initialize", seq |-> 1 - last_call.seq,
                     args |-> positions_file, result |-> Null]
    /\ UNCHANGED <<feedVars, today, last_entry, botVars, riskVars, recorded_loss,
                   paperVars, liveVars, loop, dash, now, last_pair>>

\* bound of the exploration: the order pairs executed over all the runs of
\* the process
MaxLedgerPairs == 3

\* the entry the engine finds at QuoteWide
LedgerOpportunities ==
    {find_opportunity(_load_positions(Null), NewDailyStats, 0, RISK_CONFIG,
                      QuoteWide, TRADING_CONFIG.MIN_ORDER_INTERVAL).opp}

NextLedger ==
    \/ \E o \in LedgerOpportunities, w \in BOOLEAN :
           /\ Len(paper_trade_history) < MaxLedgerPairs
           /\ engine_execute_opportunity(o, w)
    \/ \E i \in 1..MaxEntries, w \in BOOLEAN :
           /\ Len(paper_trade_history) < MaxLedgerPairs
           /\ engine_close_position(i, "Exit spread reached", w)
    \/ \E id \in ExitTargetIds, v \in ExitTargetArgs :
           update_position_exit_spread(id, v)
    \/ engine_restart(TRUE)

SpecLedger == InitLedger /\ [][NextLedger]_vars

-----------------------------------------------------------------------------
\* Claims about the position ledger

\* the ledger document carries the counter of the running engine (an engine
\* that never wrote and found no document counts from 0)
CounterPersisted ==
    IF positions_file = Null THEN position_counter = 0
    ELSE /\ "position_counter" \in DOMAIN positions_file
         /\ positions_file.position_counter = position_counter

Created == IsCall("execute_opportunity") /\ last_call'.result.success

\* C23 as the specification words it: every position created gets an id
\* greater than the id of every position created before it, in this run of
\* the process or in an earlier one whose ledger was restored, and the
\* restored counter is greater than the sequence number of every restored
\* position.
C23_IdsIncreaseAcrossRestarts ==
    /\ [][Created =>
             /\ last_entry'.id > last_entry.id
             /\ \A i \in 1..Len(positions) : positions[i].id < last_entry'.id]_vars
    /\ [][IsCall("initialize") =>
             \A i \in 1..Len(positions') :
                 positions'[i].id < position_counter']_vars

\* C23, amended: a created position gets the counter as its id and the
\* counter grows by one, every position the engine holds has an id below the
\* counter, and a restart restores a counter above every restored id that is
\* the counter of the run before whenever the ledger document carries that
\* counter.
C23_IdsIncreaseWhilePersisted ==
    /\ [][Created =>
             /\ last_entry'.id = position_counter
             /\ position_counter' = position_counter + 1
             /\ \A i \in 1..Len(positions) : positions[i].id < last_entry'.id]_vars
    /\ [][IsCall("initialize") =>
             /\ \A i \in 1..Len(positions') :
                    positions'[i].id < position_counter'
             /\ CounterPersisted => position_counter' = position_counter]_vars
    /\ [](\A i \in 1..Len(positions) : positions[i].id < position_counter)

\* a position created after a restart, with the id that continues the
\* sequence of the run before
C23_Witness ==
    /\ ticks > 0
    /\ last_call.op = "execute_opportunity"
    /\ last_call.result.success
    /\ last_entry.id = position_counter - 1
    /\ \E i \in 1..Len(positions) : positions[i].id = last_entry.id
    /\ \E i \in 1..Len(positions) : positions[i].id < last_entry.id

\* the position that _load_positions restores under the id of positions[i]
\* from the document _save_positions writes for the engine as it stands
Reloaded(i) ==
    LET E2 == _load_positions(_save_positions(Engine, TRUE).positions_file)
    IN  {E2.positions[k] : k \in {j \in 1..Len(E2.positions) :
                                      E2.positions[j].id = positions[i].id}}

C25_MissingSpreadFarFromTarget ==
    [][IsCall("initialize") /\ positions_file # Null =>
          \A j \in 1..Len(positions_file.positions) :
              LET d == positions_file.positions[j]
              IN  /\ "current_exit_spread" \notin DOMAIN d
                  /\ DictGet(d, "status", "open") = "open"
                  => \E k \in 1..Len(positions') :
                         /\ positions'[k].id = d.id
                         /\ positions'[k].current_exit_spread
                                = d.exit_target - FarFromTarget
                         /\ ~should_close(positions'[k])]_vars

\* a position restored from a document without current_exit_spread that
\* satisfies should_close before any monitoring pass
C25_RestoredClosing ==
    /\ last_call.op = "initialize"
    /\ \E k \in 1..Len(positions) :
           /\ IsMonitored(k)
           /\ should_close(positions[k])
           /\ positions[k].current_exit_spread
                  # positions[k].exit_target - FarFromTarget
           /\ \E j \in 1..Len(positions_file.positions) :
                  /\ positions_file.positions[j].id = positions[k].id
                  /\ "current_exit_spread"
                         \notin DOMAIN positions_file.positions[j]

\* ids of the positions open in memory, and of those of a document
OpenIds == {positions[i].id : i \in {k \in 1..Len(positions) : IsMonitored(k)}}

FileIds(file) == {file.positions[j].id : j \in 1..Len(file.positions)}

\* the document on disk holds exactly the positions open in memory, each
\* once and as open, and the counter of the engine
LedgerCurrent ==
    /\ positions_file # Null
    /\ FileIds(positions_file) = OpenIds
    /\ Len(positions_file.positions) = Cardinality(OpenIds)
    /\ \A j \in 1..Len(positions_file.positions) :
           DictGet(positions_file.positions[j], "status", "open") = "open"
    /\ "position_counter" \in DOMAIN positions_file
    /\ positions_file.position_counter = position_counter

\* C26: after every execute_opportunity and close_position that succeeded
\* and wrote the file, the document holds exactly the open positions of the
\* engine with its position_counter, and a restart from such a document
\* restores the same open set and counter.
C26_LedgerMatchesOpenSet ==
    /\ [][(IsCall("execute_opportunity") \/ IsCall("close_position"))
          /\ last_call'.result.written
          => LedgerCurrent']_vars
    /\ [][IsCall("initialize") /\ LedgerCurrent
          => /\ OpenIds' = OpenIds
             /\ Len(open_positions') = Cardinality(OpenIds)
             /\ position_counter' = position_counter]_vars

\* a close that wrote the document and left another position open
C26_Witness ==
    /\ last_call.op = "close_position"
    /\ last_call.result.written
    /\ LedgerCurrent
    /\ Cardinality(OpenIds) = 1
    /\ trade_history # <<>>

\* a restart from a document that matched the engine, with a position open
C26_WitnessRestart ==
    /\ last_call.op = "initialize"
    /\ LedgerCurrent
    /\ OpenIds # {}
    /\ position_counter > Cardinality(OpenIds)

\* the document on disk carries the exit_target of every open position
PersistedTargets ==
    \A i \in 1..Len(positions) :
        IsMonitored(i) =>
            /\ positions_file # Null
            /\ \E j \in 1..Len(positions_file.positions) :
                   /\ positions_file.positions[j].id = positions[i].id
                   /\ positions_file.positions[j].exit_target
                          = positions[i].exit_target

\* the step rewrites the exit_target of the open position at i in place
Rewritten(i) ==
    /\ IsMonitored(i)
    /\ Len(positions') = Len(positions)
    /\ positions'[i].id = positions[i].id
    /\ positions'[i].exit_target # positions[i].exit_target

\* C27: whenever the exit_target of an open position is rewritten in place,
\* by initialize from the configuration or by the per-position update, the
\* document on disk carries the exit_target of every open position when the
\* operation is over, and no other field of any position has changed.
C27_RewritePersisted ==
    /\ [][(\E i \in 1..Len(positions) : Rewritten(i)) /\ ~IsCall("initialize")
          => /\ PersistedTargets'
             /\ \A k \in 1..Len(positions) :
                    [positions'[k] EXCEPT !.exit_target = positions[k].exit_target]
                        = positions[k]]_vars
    /\ [][IsCall("initialize") => PersistedTargets']_vars

\* an open position whose exit_target in memory is not the one on disk
C27_Unpersisted ==
    /\ positions_file # Null
    /\ \E i \in 1..Len(positions), j \in 1..Len(positions_file.positions) :
           /\ IsMonitored(i)
           /\ positions_file.positions[j].id = positions[i].id
           /\ positions_file.positions[j].exit_target # positions[i].exit_target

(***************************************************************************)
(* The bot and the health of its feeds (NVDAFuturesArbitrageBot): run      *)
(* connects the feeds and starts trading_cycle, whose iterations refresh    *)
(* the trading mode every HealthCheckInterval seconds and dispatch on it.  *)
(* feed_ok is what is_healthy() of each client returns at the moment.      *)
(***************************************************************************)
\* seconds between two health checks of trading_cycle
HealthCheckInterval == 3

\* update_trading_mode with the is_healthy() answers in ok
update_trading_mode(b, ok) ==
    [b EXCEPT !.bitget_healthy = ok.bitget,
              !.hyper_healthy = ok.hyper,
              !.trading_mode = IF ok.bitget /\ ok.hyper THEN "ACTIVE"
                               ELSE IF ok.bitget \/ ok.hyper THEN "PARTIAL"
                               ELSE "STOPPED"]

\* run(): initialize_websockets starts the clients and takes the first
\* mode, then trading_cycle starts
bot_run(ok) ==
    /\ ~bot.running
    /\ bot.last_health_check = NoTime
    /\ feed_ok' = ok
    /\ bot' = [update_trading_mode(bot, ok) EXCEPT !.running = TRUE,
                                                   !.last_health_check = now]
    /\ UNCHANGED <<riskVars, riskObs, engineVars, paperVars, liveVars, taskVars,
                   feedVars, today, last_entry>>

\* a client stops or starts being healthy: it disconnects or reconnects, or
\* it falls silent for two heartbeats or receives again
feed_health_changes(f) ==
    /\ bot.running
    /\ feed_ok' = [feed_ok EXCEPT ![f] = ~@]
    /\ UNCHANGED <<riskVars, riskObs, engineVars, paperVars, liveVars, taskVars,
                   feedVars, today, last_entry, bot>>

\* the dashboard pauses or resumes trading
set_trading_enabled(v) ==
    /\ bot.running
    /\ bot.trading_enabled # v
    /\ bot' = [bot EXCEPT !.trading_enabled = v]
    /\ last_call' = [op |-> "handle_bot_command", seq |-> 1 - last_call.seq,
                     args |-> v, result |-> Null]
    /\ UNCHANGED <<riskVars, recorded_loss, engineVars, paperVars, liveVars,
                   taskVars, feedVars, today, last_entry, feed_ok>>

\* the bot after the health check of an iteration of trading_cycle
HealthChecked ==
    IF now - bot.last_health_check >= HealthCheckInterval
    THEN [update_trading_mode(bot, feed_ok) EXCEPT !.last_health_check = now]
    ELSE bot

\* the market data an iteration hands on: the latest quote of the clients
\* the bot holds for healthy
FetchedData(b, q) ==
    [q EXCEPT !.bitget = IF b.bitget_healthy THEN q.bitget ELSE Null,
              !.hyper = IF b.hyper_healthy THEN q.hyper ELSE Null]

\* active_trading_mode with open positions: monitor_positions
active_monitor(q, write_ok) ==
    /\ \E r \in {monitor_await(Engine, open_positions, 1, FALSE, q, portfolio,
                                paper_trade_history, <<>>, <<>>, write_ok)} :
           /\ SetEngine(r.E)
           /\ portfolio' = r.portfolio
           /\ paper_trade_history' = r.history
           /\ last_pair' = ObservePairs(r.returns)
    /\ ticks' = ticks + 1
    /\ UNCHANGED <<riskVars, last_entry>>

\* active_trading_mode without open positions: find_opportunity and, when
\* it returns one, execute_opportunity
active_enter(q, write_ok) ==
    LET f    == find_opportunity(Engine, daily_stats, session_loss, config, q, now)
        call == IF f.opp = Null THEN Null ELSE entry_pair(Engine, config, f.opp)
        r    == paper_fok_pair(portfolio, paper_trade_history, call)
    IN  /\ daily_stats' = f.ds
        /\ daily_stats_file' =
               IF \E i \in 1..Len(f.calls) : f.calls[i].latch
               THEN save_daily_stats(f.ds, write_ok) ELSE daily_stats_file
        /\ UNCHANGED <<config, session_loss, total_trades, max_drawdown, ticks>>
        /\ IF call = Null
           THEN UNCHANGED <<engineVars, paperVars, last_pair, last_entry>>
           ELSE /\ portfolio' = r.portfolio
                /\ paper_trade_history' = r.history
                /\ last_pair' = ObservePairs(<<PairReturn("loop", call, r.legs,
                                                          r.result)>>)
                /\ last_entry' =
                       IF r.legs = <<>> THEN last_entry
                       ELSE [last_entry EXCEPT
                                !.time = now, !.seq = 1 - @,
                                !.id = IF r.result.success THEN position_counter
                                       ELSE @]
                /\ SetEngine(execute_opportunity_finish(Engine, call.ctx, r.result,
                                                        now, write_ok))

\* mutant: a paused bot does not monitor its open positions either
m_trading_cycle_pause_stops_monitoring(q, write_ok) ==
    LET b    == HealthChecked
        data == FetchedData(b, q)
    IN  /\ bot.running
        /\ bot' = b
        /\ last_call' = [op |-> "trading_cycle", seq |-> 1 - last_call.seq,
                         args |-> data, result |-> [mode |-> b.trading_mode]]
        /\ IF b.trading_mode = "ACTIVE" /\ has_market_data(data)
           THEN IF has_open_positions(Engine) /\ b.trading_enabled
                THEN active_monitor(data, write_ok)
                ELSE IF ~b.trading_enabled
                THEN UNCHANGED <<riskVars, engineVars, paperVars, last_pair,
                                 last_entry, ticks>>
                ELSE active_enter(data, write_ok)
           ELSE UNCHANGED <<riskVars, engineVars, paperVars, last_pair,
                            last_entry, ticks>>
        /\ UNCHANGED <<recorded_loss, liveVars, loop, dash, now, feedVars,
                       today, feed_ok>>

\* one iteration of the loop of trading_cycle with the latest quotes q
trading_cycle(q, write_ok) ==
    LET b    == HealthChecked
        data == FetchedData(b, q)
    IN  /\ bot.running
        /\ bot' = b
        /\ last_call' = [op |-> "trading_cycle", seq |-> 1 - last_call.seq,
                         args |-> data, result |-> [mode |-> b.trading_mode]]
        /\ IF b.trading_mode = "ACTIVE" /\ has_market_data(data)
           THEN IF has_open_positions(Engine)
                THEN active_monitor(data, write_ok)
                ELSE IF ~b.trading_enabled
                THEN UNCHANGED <<riskVars, engineVars, paperVars, last_pair,
                                 last_entry, ticks>>
                ELSE active_enter(data, write_ok)
           ELSE UNCHANGED <<riskVars, engineVars, paperVars, last_pair,
                            last_entry, ticks>>
        /\ UNCHANGED <<recorded_loss, liveVars, loop, dash, now, feedVars,
                       today, feed_ok>>

\* bound of the exploration: the order pairs the loop submits; ticks counts
\* the iterations that monitored
MaxBotPairs == 3

NextBot ==
    \/ \E ok \in [{"bitget", "hyper"} -> BOOLEAN] : bot_run(ok)
    \/ \E f \in {"bitget", "hyper"} : feed_health_changes(f)
    \/ \E v \in BOOLEAN : set_trading_enabled(v)
    \/ \E q \in Quotes, w \in WriteOutcomes :
           /\ Len(paper_trade_history) < MaxBotPairs
           /\ position_counter < MaxEntries
           /\ ticks < MaxTicks
           /\ trading_cycle(q, w)
    \/ TimePasses

SpecBot == InitEngine /\ [][NextBot]_vars

-----------------------------------------------------------------------------
\* Claims about the trading mode

BothHealthy == feed_ok.bitget /\ feed_ok.hyper

\* C28: whenever at least one feed is unhealthy the loop submits no entry
\* and no exit order and keeps running, and the trading mode is ACTIVE
\* exactly when both feeds are healthy.
C28_NoOrdersWhileUnhealthy ==
    /\ [][~BothHealthy => /\ last_pair' = last_pair
                          /\ (bot.running => bot'.running)]_vars
    /\ [](bot.running => (bot.trading_mode = "ACTIVE" <=> BothHealthy))

\* in the modes PARTIAL and STOPPED an iteration submits no order and
\* changes nothing of the engine, and the loop keeps running
C28_NoOrdersOutsideActive ==
    [][IsCall("trading_cycle") /\ last_call'.result.mode # "ACTIVE"
       => /\ last_pair' = last_pair
          /\ UNCHANGED <<engineVars, paperVars>>
          /\ bot'.running]_vars

\* every health check sets the mode from the health of the feeds
C28_ModeAtHealthCheck ==
    [][bot.running /\ bot'.last_health_check # bot.last_health_check
       => (bot'.trading_mode = "ACTIVE" <=> BothHealthy)]_vars

\* an order pair submitted by an iteration while a feed was unhealthy
C28_OrderWhileUnhealthy ==
    /\ last_call.op = "trading_cycle"
    /\ last_call.result.mode = "ACTIVE"
    /\ ~BothHealthy
    /\ last_pair.returns # <<>>
    /\ last_entry.time = now

\* the loop trading again after a feed was lost and came back
C28_Resumed ==
    /\ last_call.op = "trading_cycle"
    /\ last_call.result.mode = "ACTIVE"
    /\ BothHealthy
    /\ bot.last_health_check > TRADING_CONFIG.MIN_ORDER_INTERVAL
    /\ last_entry.time = now

(***************************************************************************)
(* calculate_trade_pnl as a function of the position and of the result of  *)
(* the unwind pair: the inputs are in last_call.args, the call puts the    *)
(* returned dict in last_call.result.                                      *)
(***************************************************************************)
\* positions of both directions; one restored with contracts 0 and one with
\* an entry buy price of 0 among them
PnlPositions ==
    {NewPosition(0, d, c, [buy |-> b, sell |-> s], 143,
                 TRADING_CONFIG.MIN_SPREAD_EXIT) :
        d \in {"B_TO_H", "H_TO_B"}, c \in {0, 100, 250},
        b \in {0, 1710371}, s \in {1709000, 1712829}}

\* the result of the unwind pair of pos at the prices b and s
ExitResult(pos, b, s) ==
    [success    |-> TRUE,
     buy_order  |-> [exchange |-> close_orders(pos).buy.exchange, price |-> b],
     sell_order |-> [exchange |-> close_orders(pos).sell.exchange, price |-> s]]

PnlInputs ==
    {[position |-> p, exit_result |-> ExitResult(p, b, s)] :
        p \in PnlPositions, b \in {1710171, 1711371}, s \in {1709829, 1712000}}

InitPnl ==
    /\ config = RISK_CONFIG
    /\ daily_stats = NewDailyStats
    /\ session_loss = 0
    /\ total_trades = 0
    /\ max_drawdown = 0
    /\ daily_stats_file = Null
    /\ \E x \in PnlInputs :
           last_call = [op |-> None, seq |-> 0, args |-> x, result |-> Null]
    /\ recorded_loss = 0
    /\ SetEngineInit(_load_positions(Null))
    /\ portfolio = [USDT |-> 1000 * USD, NVDA |-> 0]
    /\ paper_trade_history = <<>>
    /\ live = NewLive
    /\ loop = IdleLoop
    /\ dash = IdleDash
    /\ now = TRADING_CONFIG.MIN_ORDER_INTERVAL
    /\ ticks = 0
    /\ last_pair = [seq |-> 0, returns |-> <<>>]
    /\ FeedRegistered
    /\ today = 0
    /\ last_entry = NoEntry
    /\ BotCreated

\* self.calculate_trade_pnl(position, exit_result)
pnl_call ==
    /\ last_call.op = None
    /\ last_call' = [op |-> "calculate_trade_pnl", seq |-> 1,
                     args |-> last_call.args,
                     result |-> calculate_trade_pnl(last_call.args.position,
                                                    last_call.args.exit_result)]
    /\ UNCHANGED <<riskVars, recorded_loss, engineVars, paperVars, liveVars,
                   taskVars, feedVars, today, last_entry, botVars>>

NextPnl == pnl_call

SpecPnl == InitPnl /\ [][NextPnl]_vars

-----------------------------------------------------------------------------
\* Claims about the accounting

\* the exchange an entry leg of a position of direction d executes on
EntryExchange(d, side) ==
    IF (d = "B_TO_H") = (side = "buy") THEN "bitget" ELSE "hyperliquid"

\* C29: the dict calculate_trade_pnl returns has net = gross - fees, gross =
\* (entry sell - entry buy) * contracts + (exit sell - exit buy) * contracts,
\* fees = the sum of the four leg fees, each price * contracts times the fee
\* rate of the exchange the leg executed on, and return_percent 0 when
\* entry buy * contracts is 0.
C29_PnlAccounting ==
    last_call.op = "calculate_trade_pnl" =>
        LET pos  == last_call.args.position
            ex   == last_call.args.exit_result
            pnl  == last_call.result
            c    == pos.contracts
            rate == TRADING_CONFIG.FEES
            leg(price, exchange) == Fee(Notional(price, c), rate[exchange])
        IN  /\ pnl.net = pnl.gross - pnl.fees
            /\ pnl.gross = Notional(pos.entry_prices.sell - pos.entry_prices.buy, c)
                           + Notional(ex.sell_order.price - ex.buy_order.price, c)
            /\ pnl.fees = leg(pos.entry_prices.buy,
                              EntryExchange(pos.direction, "buy"))
                          + leg(pos.entry_prices.sell,
                                EntryExchange(pos.direction, "sell"))
                          + leg(ex.buy_order.price, ex.buy_order.exchange)
                          + leg(ex.sell_order.price, ex.sell_order.exchange)
            /\ Notional(pos.entry_prices.buy, c) = 0 => pnl.return_percent = 0

\* the accounting of a B->H position closed at a loss
C29_Witness ==
    /\ last_call.op = "calculate_trade_pnl"
    /\ last_call.args.position.direction = "B_TO_H"
    /\ last_call.args.position.contracts > 0
    /\ last_call.args.position.entry_prices.buy > 0
    /\ last_call.result.fees > 0
    /\ last_call.result.net < 0
    /\ last_call.result.return_percent < 0

\* the accounting of a position whose entry cost is 0
C29_WitnessZeroCost ==
    /\ last_call.op = "calculate_trade_pnl"
    /\ last_call.args.position.contracts > 0
    /\ last_call.args.position.entry_prices.buy = 0
    /\ last_call.result.net # 0
    /\ last_call.result.return_percent = 0

\* the final_pnl of every closed position is the dict calculate_trade_pnl
\* returns for the position and the prices of its unwind
C29_ClosedPositions ==
    \A i \in 1..Len(positions) :
        positions[i].status = "closed" =>
            positions[i].final_pnl
                = calculate_trade_pnl(positions[i],
                                      ExitResult(positions[i],
                                                 positions[i].exit_prices.buy,
                                                 positions[i].exit_prices.sell))

(***************************************************************************)
(* OrderBookAnalyzer.  An order book is Null or a record with the keys     *)
(* bids and asks, each a sequence of levels [price, volume]; prices in     *)
(* 0.01 USD, volumes and amounts in contracts, slippage in 0.00001.  The   *)
(* orderbook, side and amount of the last call are in last_call.args.      *)
(***************************************************************************)
\* the 0.1% returned when the book gives no price
DefaultSlippage == 100

\* the level sorted() puts first: the lowest price, the highest in reverse;
\* of equal prices the one that comes first
FirstLevel(levels, reverse) ==
    CHOOSE k \in 1..Len(levels) :
        /\ \A j \in 1..Len(levels) :
               IF reverse THEN levels[j].price <= levels[k].price
               ELSE levels[j].price >= levels[k].price
        /\ \A j \in 1..(k - 1) : levels[j].price # levels[k].price

\* sorted(levels, key=price, reverse=reverse)
RECURSIVE SortedLevels(_, _)
SortedLevels(levels, reverse) ==
    IF levels = <<>> THEN <<>>
    ELSE LET k == FirstLevel(levels, reverse)
         IN  <<levels[k]>>
             \o SortedLevels(SubSeq(levels, 1, k - 1)
                             \o SubSeq(levels, k + 1, Len(levels)), reverse)

\* the loop over the sorted levels: the cost of what was taken and what
\* remains to fill
RECURSIVE TakeLevels(_, _, _)
TakeLevels(levels, remaining_amount, total_cost) ==
    IF levels = <<>> \/ remaining_amount <= 0
    THEN [total_cost |-> total_cost, remaining_amount |-> remaining_amount]
    ELSE LET volume_to_take ==
                 IF Head(levels).volume < remaining_amount
                 THEN Head(levels).volume ELSE remaining_amount
         IN  TakeLevels(Tail(levels), remaining_amount - volume_to_take,
                        total_cost + Head(levels).price * volume_to_take)

\* A fill that prices only the volume the book holds: the remainder of an
\* amount beyond the depth costs nothing
m_calculate_average_price_drops_remainder(levels, amount, reverse) ==
    IF levels = <<>> \/ amount <= 0
    THEN [total_cost |-> 0, amount |-> 1]
    ELSE LET sorted_levels == SortedLevels(levels, reverse)
             taken == TakeLevels(sorted_levels, amount, 0)
         IN  [total_cost |-> taken.total_cost, amount |-> amount]

\* calculate_average_price: the average is total_cost / amount, kept as the
\* two numbers; 0.0 is total_cost 0
calculate_average_price(levels, amount, reverse) ==
    IF levels = <<>> \/ amount <= 0
    THEN [total_cost |-> 0, amount |-> 1]
    ELSE LET sorted_levels == SortedLevels(levels, reverse)
             taken == TakeLevels(sorted_levels, amount, 0)
             last_price == sorted_levels[Len(sorted_levels)].price
         IN  [total_cost |->
                  IF taken.remaining_amount > 0
                  THEN taken.total_cost + last_price * taken.remaining_amount
                  ELSE taken.total_cost,
              amount |-> amount]

\* max(0.0, numerator / denominator) in 0.00001
ClampedRatio(numerator, denominator) ==
    IF numerator <= 0 THEN 0
    ELSE ScaledQuotient(numerator \div denominator, numerator % denominator,
                        denominator, 5)

\* calculate_slippage(orderbook, side, amount)
calculate_slippage(orderbook, side, amount) ==
    IF orderbook = Null \/ "bids" \notin DOMAIN orderbook
       \/ "asks" \notin DOMAIN orderbook
    THEN DefaultSlippage
    ELSE IF side = "buy"
    THEN IF orderbook.asks = <<>> THEN DefaultSlippage
         ELSE LET best_ask == orderbook.asks[1].price
                  avg == calculate_average_price(orderbook.asks, amount, FALSE)
              IN  IF avg.total_cost > 0 /\ best_ask > 0
                  THEN ClampedRatio(avg.total_cost - best_ask * avg.amount,
                                    best_ask * avg.amount)
                  ELSE DefaultSlippage
    ELSE IF orderbook.bids = <<>> THEN DefaultSlippage
         ELSE LET best_bid == orderbook.bids[1].price
                  avg == calculate_average_price(orderbook.bids, amount, TRUE)
              IN  IF avg.total_cost > 0 /\ best_bid > 0
                  THEN ClampedRatio(best_bid * avg.amount - avg.total_cost,
                                    best_bid * avg.amount)
                  ELSE DefaultSlippage

\* books as the feeds keep them: two levels a side, one level a side, a
\* side without levels, and a snapshot without the keys
BookDeep ==
    [bids |-> <<[price |-> 17100, volume |-> 2], [price |-> 17080, volume |-> 1]>>,
     asks |-> <<[price |-> 17102, volume |-> 1], [price |-> 17130, volume |-> 2]>>]

BookThin ==
    [bids |-> <<[price |-> 17100, volume |-> 1]>>,
     asks |-> <<[price |-> 17102, volume |-> 1]>>]

BookNoAsks == [BookDeep EXCEPT !.asks = <<>>]

BookNoBids == [BookDeep EXCEPT !.bids = <<>>]

BookNoKeys == [timestamp |-> 0]

OrderBooks == {Null, BookDeep, BookThin, BookNoAsks, BookNoBids, BookNoKeys}

\* the largest amount asked for; the deepest side holds 3 contracts
MaxAmount == 5

InitSlippage ==
    /\ config = RISK_CONFIG
    /\ daily_stats = NewDailyStats
    /\ session_loss = 0
    /\ total_trades = 0
    /\ max_drawdown = 0
    /\ daily_stats_file = Null
    /\ \E book \in OrderBooks, side \in {"buy", "sell"} :
           last_call = [op |-> None, seq |-> 0,
                        args |-> [orderbook |-> book, side |-> side,
                                  amount |-> NoTime],
                        result |-> Null]
    /\ recorded_loss = 0
    /\ SetEngineInit(_load_positions(Null))
    /\ portfolio = [USDT |-> 1000 * USD, NVDA |-> 0]
    /\ paper_trade_history = <<>>
    /\ live = NewLive
    /\ loop = IdleLoop
    /\ dash = IdleDash
    /\ now = TRADING_CONFIG.MIN_ORDER_INTERVAL
    /\ ticks = 0
    /\ last_pair = [seq |-> 0, returns |-> <<>>]
    /\ FeedRegistered
    /\ today = 0
    /\ last_entry = NoEntry
    /\ BotCreated

\* OrderBookAnalyzer.calculate_slippage(orderbook, side, amount) on the book
\* and side of the run
slippage_call(amount) ==
    /\ last_call' = [op |-> "calculate_slippage", seq |-> 1 - last_call.seq,
                     args |-> [last_call.args EXCEPT !.amount = amount],
                     result |-> calculate_slippage(last_call.args.orderbook,
                                                   last_call.args.side, amount)]
    /\ UNCHANGED <<riskVars, recorded_loss, engineVars, paperVars, liveVars,
                   taskVars, feedVars, today, last_entry, botVars>>

NextSlippage == \E amount \in 0..MaxAmount : slippage_call(amount)

SpecSlippage == InitSlippage /\ [][NextSlippage]_vars

-----------------------------------------------------------------------------
\* Claims about the slippage estimate

\* two calls in a row on the same book and side, the second with an amount
\* at least as large
LargerAmount ==
    /\ last_call.op = "calculate_slippage"
    /\ IsCall("calculate_slippage")
    /\ last_call'.args.amount >= last_call.args.amount

\* C30 as the specification words it: calculate_slippage is never negative
\* and is non-decreasing in the amount over all amounts, 0 and amounts
\* beyond the depth of the book included.
C30_SlippageMonotone ==
    /\ [](last_call.op = "calculate_slippage" => last_call.result >= 0)
    /\ [][LargerAmount => last_call'.result >= last_call.result]_vars

\* C30, amended: calculate_slippage is never negative, is non-decreasing in
\* the amount over the amounts above 0, amounts beyond the depth of the book
\* included, and returns the default 0.1% for the amount 0.
C30_SlippageMonotoneAboveZero ==
    /\ [](last_call.op = "calculate_slippage" =>
             /\ last_call.result >= 0
             /\ last_call.args.amount = 0 => last_call.result = DefaultSlippage)
    /\ [][LargerAmount /\ last_call.args.amount > 0
          => last_call'.result >= last_call.result]_vars

\* a buy beyond the depth of the book, at more slippage than none
C30_Witness ==
    /\ last_call.op = "calculate_slippage"
    /\ last_call.args.orderbook = BookDeep
    /\ last_call.args.side = "buy"
    /\ last_call.args.amount > 3
    /\ last_call.result > 0
    /\ last_call.result # DefaultSlippage

(***************************************************************************)
(* The decision loop with a market that stays at the exit target of every  *)
(* open position, and the dashboard closing positions by hand.  The event  *)
(* loop resumes every task whose sleep is over and trading_cycle iterates  *)
(* again after its own sleep: the steps of the loop and the resumption of  *)
(* the dashboard handler are weakly fair.                                  *)
(***************************************************************************)
\* quotes at which the exit spread of a position of either direction is
\* above its target
ClosingQuotes == {QuoteCrossed}

LoopTick == \E q \in ClosingQuotes, w \in WriteOutcomes : monitor_positions(q, w)

LoopResumes == \E w \in WriteOutcomes : loop_resume(w)

DashboardResumes == \E w \in WriteOutcomes : dashboard_resume(w)

NextClosing ==
    \/ LoopTick
    \/ LoopResumes
    \/ \E id \in 0..(MaxPositions - 1) : dashboard_close_position(id)
    \/ DashboardResumes

SpecClosing ==
    /\ Init
    /\ [][NextClosing]_vars
    /\ WF_vars(LoopTick)
    /\ WF_vars(LoopResumes)
    /\ WF_vars(DashboardResumes)

-----------------------------------------------------------------------------
\* Claims about the liveness of closing

\* the unwind pair of the position at idx came back to the loop in this
\* step without success
CloseFailed(idx) ==
    /\ IsPairStep
    /\ \E k \in 1..Len(last_pair'.returns) :
           LET ret == last_pair'.returns[k]
           IN  /\ ret.caller = "loop"
               /\ ret.kind = "exit"
               /\ ret.ctx.idx = idx
               /\ ~ret.result.success

InitReconnect ==
    /\ config = RISK_CONFIG
    /\ daily_stats = NewDailyStats
    /\ session_loss = 0
    /\ total_trades = 0
    /\ max_drawdown = 0
    /\ daily_stats_file = Null
    /\ last_call = [op |-> None, seq |-> 0, args |-> Null, result |-> Null]
    /\ recorded_loss = 0
    /\ SetEngineInit(_load_positions(Null))
    /\ portfolio = [USDT |-> 1000 * USD, NVDA |-> 0]
    /\ paper_trade_history = <<>>
    /\ live = NewLive
    /\ loop = IdleLoop
    /\ dash = IdleDash
    /\ now = TRADING_CONFIG.MIN_ORDER_INTERVAL
    /\ ticks = 0
    /\ last_pair = [seq |-> 0, returns |-> <<>>]
    /\ today = 0
    /\ last_entry = NoEntry
    /\ BotCreated
    /\ stopped = FALSE
    /\ conn = [NewConnection EXCEPT !.state = "DISCONNECTED"]
    /\ tasks = <<NewTask>>
    /\ \E opened \in BOOLEAN :
           /\ client = client_start(NewClient, <<>>, opened).client
           /\ threads = client_start(NewClient, <<>>, opened).threads

TaskResumes(i) == \E o \in BOOLEAN : reconnect_connection(i, o)

ClosedSocketReturns(i) ==
    /\ i < Len(threads) \/ client.stop_flag
    /\ thread_close(i)

ThreadWakes == \E i \in 1..MaxThreads : thread_wake(i)

NextReconnect ==
    \/ \E i \in 1..MaxTasks : TaskResumes(i)
    \/ \E i \in 1..MaxThreads : thread_open(i)
    \/ \E i \in 1..MaxThreads : thread_close(i)
    \/ ThreadWakes
    \/ \E r \in BOOLEAN : check_connection_health(r)
    \/ stop_all

SpecReconnect ==
    /\ InitReconnect
    /\ [][NextReconnect]_vars
    /\ \A i \in 1..MaxTasks : WF_vars(TaskResumes(i))
    /\ \A i \in 1..MaxThreads : WF_vars(ClosedSocketReturns(i))
    /\ WF_vars(ThreadWakes)

\* the task i has left reconnect_connection
TaskDone(i) == i \in 1..Len(tasks) /\ tasks[i].pc = "done"

\* C32: the reconnect_connection task ends; when it leaves its loop the
\* state is CONNECTED or ERROR, and the state does not stay CONNECTING
\* forever.
C32_ReconnectTerminates ==
    /\ \A i \in 1..MaxTasks : [](i \in 1..Len(tasks) => <>TaskDone(i))
    /\ [][\A i \in 1..Len(tasks) :
              (TaskSteps(i) /\ tasks[i].pc # "created" /\ tasks'[i].pc = "done")
                 => conn'.state \in {"CONNECTED", "ERROR"}]_vars
    /\ [](conn.state = "CONNECTING" => <>(conn.state # "CONNECTING"))

\* a loop that failed at least once has ended with the feed connected
C32_Witness ==
    /\ conn.state = "CONNECTED"
    /\ \E i \in 1..Len(tasks) : tasks[i].pc = "done" /\ tasks[i].attempt > 1

\* a loop has used up its attempts and ended
C32_WitnessError ==
    /\ conn.state = "ERROR"
    /\ \E i \in 1..Len(tasks) : tasks[i].pc = "done" /\ tasks[i].attempt = max_attempts


\* the engine called over time: between two calls the clock may pass the
\* order interval
NextBuildUp ==
    \/ NextEngine
    \/ TimePasses

SpecBuildUp == InitEngine /\ [][NextBuildUp]_vars

\* C33: with open positions whose size is below MAX_POSITION_CONTRACTS, the
\* order interval elapsed and a direction that clears the entry threshold
\* and is admitted by can_open_position, find_opportunity returns that
\* direction.
C33_BuildsUpBelowCapacity ==
    [][/\ IsCall("find_opportunity")
       /\ open_positions # <<>>
       /\ get_total_position_contracts(Engine, None) < config.MAX_POSITION_CONTRACTS
       /\ now - last_order_time >= TRADING_CONFIG.MIN_ORDER_INTERVAL
       /\ ~QuoteUnavailable(last_call'.args)
       => LET q == last_call'.args
              spreads == calculate_spreads(q.bitget, q.hyper, q.bitget_slippage,
                                           q.hyper_slippage)
          IN  (Qualifies(spreads, "B_TO_H") \/ Qualifies(spreads, "H_TO_B"))
                  => last_call'.result # Null]_vars

\* find_opportunity returned nothing although a position was open below
\* the maximum and a direction qualified
C33_NothingWhileOpen ==
    /\ last_call.op = "find_opportunity"
    /\ last_call.args = QuoteWide
    /\ last_call.result = Null
    /\ open_positions # <<>>
    /\ get_total_position_contracts(Engine, None) < config.MAX_POSITION_CONTRACTS
    /\ now - last_order_time >= TRADING_CONFIG.MIN_ORDER_INTERVAL


(***************************************************************************)
(* Claims about the snapshot of monitor_positions                          *)
(***************************************************************************)
\* a step of the decision loop
LoopSteps == loop' # loop \/ ticks' # ticks

\* the snapshot the loop iterates in this step
LoopSnapshot == IF loop.pc = "pair" THEN loop.snapshot ELSE open_positions

\* the position whose unwind pair the loop is waiting for
LoopInFlight(i) ==
    /\ loop.pc = "pair"
    /\ loop.call.kind = "exit"
    /\ loop.call.ctx.idx = i

\* the loop starts or fails an unwind pair for the position i in this step
LoopInitiatesClose(i) ==
    \/ /\ loop'.pc = "pair"
       /\ loop'.call.kind = "exit"
       /\ loop'.call.ctx.idx = i
       /\ ~LoopInFlight(i)
    \/ /\ IsPairStep
       /\ \E k \in 1..Len(last_pair'.returns) :
              LET ret == last_pair'.returns[k]
              IN  /\ ret.caller = "loop"
                  /\ ret.kind = "exit"
                  /\ ret.ctx.idx = i
                  /\ ~LoopInFlight(i)

\* C34: monitor_positions works on the snapshot of the open set it took at
\* its start: a position that is closed or out of the open set when its turn
\* comes is skipped (its exit spread, its history and its update count stay
\* as they are and no close is started for it), and a position outside the
\* snapshot is not visited.
C34_SnapshotSkipsClosed ==
    [][LoopSteps
          => \A i \in 1..Len(positions) :
                 (/\ \/ positions[i].status # "open"
                     \/ ~InSeq(i, open_positions)
                     \/ ~InSeq(i, LoopSnapshot)
                  /\ ~LoopInFlight(i))
                     => /\ positions'[i] = positions[i]
                        /\ ~LoopInitiatesClose(i)]_vars

\* the loop waits for the unwind of the first position of its snapshot and
\* the dashboard has closed the second, which is next
C34_Witness ==
    /\ loop.pc = "pair"
    /\ loop.snapshot = <<1, 2>>
    /\ loop.k = 1
    /\ positions[1].status = "open"
    /\ positions[2].status = "closed"
    /\ ~InSeq(2, open_positions)

\* the loop closed the first position and passed by the second, closed by
\* the dashboard
C34_WitnessPassed ==
    /\ loop.pc = "idle"
    /\ ticks = 1
    /\ Len(positions) = 2
    /\ positions[1].status = "closed"
    /\ positions[1].exit_reason = "Exit spread reached"
    /\ positions[2].status = "closed"
    /\ positions[2].exit_reason = "FORCE: Manual close via dashboard"
    /\ positions[2].update_count = DictGet(SavedLedger.positions[2], "update_count", 0)
    /\ Count(trade_history, 2) = 1


(***************************************************************************)
(* Claims about the collections of the engine                              *)
(***************************************************************************)
\* C35: every position the engine has created or restored is open and in
\* the open set (once) and not in the trade history, or closed and in the
\* trade history and not in the open set; no position is deleted or changes
\* its id, and the trade history only grows.
C35_OneCollection ==
    /\ [](\A i \in 1..Len(positions) :
             \/ /\ positions[i].status = "open"
                /\ Count(open_positions, i) = 1
                /\ Count(trade_history, i) = 0
             \/ /\ positions[i].status = "closed"
                /\ Count(open_positions, i) = 0
                /\ Count(trade_history, i) >= 1)
    /\ [][/\ Len(positions') >= Len(positions)
          /\ \A i \in 1..Len(positions) : positions'[i].id = positions[i].id
          /\ Len(trade_history') >= Len(trade_history)
          /\ SubSeq(trade_history', 1, Len(trade_history)) = trade_history]_vars

\* after a close one position is in the trade history and another in the
\* open set
C35_Witness ==
    \E i, j \in 1..Len(positions) :
        /\ positions[i].status = "closed"
        /\ InSeq(i, trade_history)
        /\ positions[j].status = "open"
        /\ InSeq(j, open_positions)

\* a position created by the loop was closed and is in the trade history
C35_WitnessCreated ==
    \E i \in 1..Len(positions) :
        /\ positions[i].status = "closed"
        /\ InSeq(i, trade_history)
        /\ last_entry.id = positions[i].id


(***************************************************************************)
(* record_trade_result called with losses, gains and a result of zero      *)
(***************************************************************************)
RecordPnls == {-60 * USD, -40 * USD, -1, 0, 30 * USD}

RecordResult ==
    /\ \E pnl \in RecordPnls, v \in VolumeArgs, w \in WriteOutcomes :
           record_trade_result(pnl, v, w)
    /\ UNCHANGED <<feedVars, today, last_entry, botVars, engineVars, paperVars,
                   liveVars, taskVars>>

NextRecord == RecordResult

SpecRecord == InitRisk /\ [][NextRecord]_vars

C36_WitnessLoss ==
    /\ last_call.op = "record_trade_result"
    /\ last_call.args.pnl = -1
    /\ daily_stats.consecutive_losses = 2
    /\ daily_stats.max_loss_trade = 60 * USD
    /\ daily_stats_file = daily_stats

\* a result of zero counts as a gain
C36_WitnessZero ==
    /\ last_call.op = "record_trade_result"
    /\ last_call.args.pnl = 0
    /\ daily_stats.consecutive_losses = 0
    /\ daily_stats.total_loss < 0


(***************************************************************************)
(* Several disconnect events on the event loop of one connection           *)
(***************************************************************************)
MaxLoops == 2

NextLoops ==
    \/ \E o \in BOOLEAN : feed_start(o)
    \/ \E i \in 1..MaxThreads : thread_open(i)
    \/ \E i \in 1..MaxThreads : thread_close(i)
    \/ \E i \in 1..MaxThreads : thread_wake(i)
    \/ Len(tasks) < MaxLoops /\ on_connection_disconnected
    \/ \E i \in 1..MaxLoops, o \in BOOLEAN : reconnect_connection(i, o)

SpecLoops == InitFeed /\ [][NextLoops]_vars

\* the tasks that are inside the loop of reconnect_connection
ActiveLoops == {i \in 1..Len(tasks) : tasks[i].pc \in {"sleep1", "backoff"}}

\* C37: at most one reconnect_connection task of the connection is inside
\* its loop at any time.
C37_OneLoopAtATime == Cardinality(ActiveLoops) <= 1

\* a disconnect event arrived while a loop was running, and its task is in
\* the loop as well
C37_TwoLoops ==
    /\ Len(tasks) = 2
    /\ tasks[1].pc = "sleep1"
    /\ tasks[2].pc = "sleep1"
    /\ conn.state = "CONNECTING"
    /\ conn.reconnect_attempts = 2


(***************************************************************************)
(* Claims about the statistics of the engine                               *)
(***************************************************************************)
\* the sum of final_pnl[field] over the first n entries of the trade history
RECURSIVE SumHistory(_, _)
SumHistory(n, field) ==
    IF n = 0 THEN 0
    ELSE SumHistory(n - 1, field) + positions[trade_history[n]].final_pnl[field]

\* C38: total_pnl is the sum of final_pnl.net and total_fees the sum of
\* final_pnl.fees over the entries of the trade history, and a step that
\* adds no entry to the trade history leaves both as they are.
C38_TotalsMatchHistory ==
    /\ [](/\ total_pnl = SumHistory(Len(trade_history), "net")
          /\ total_fees = SumHistory(Len(trade_history), "fees"))
    /\ [][trade_history' = trade_history
             => UNCHANGED <<total_pnl, total_fees>>]_vars

\* two positions were closed, one by the loop and one from the dashboard,
\* and a failed unwind came in between
C38_Witness ==
    /\ Len(trade_history) = 2
    /\ trade_history[1] # trade_history[2]
    /\ total_fees > 0
    /\ total_pnl = positions[1].final_pnl.net + positions[2].final_pnl.net
    /\ \E i, j \in 1..2 :
           /\ positions[i].exit_reason = "Exit spread reached"
           /\ positions[j].exit_reason = "FORCE: Manual close via dashboard"


C39_WitnessNoEntry ==
    /\ last_call.op = "trading_cycle"
    /\ ~bot.trading_enabled
    /\ last_call.result.mode = "ACTIVE"
    /\ last_call.args = QuoteWide
    /\ open_positions = <<>>
    /\ now - last_order_time >= TRADING_CONFIG.MIN_ORDER_INTERVAL

(***************************************************************************)
(* The PaperTradeExecutor on its own: single market orders and order      *)
(* pairs, one call after another, on a portfolio restored from             *)
(* paper_portfolio.json.                                                   *)
(***************************************************************************)
\* balances the portfolio file can hold, within a few fees of the cost of
\* one order, so that the funds run out after a few orders
PaperPortfolios ==
    {[USDT |-> 1714000, NVDA |-> 0],
     [USDT |-> 1711100, NVDA |-> 0],
     [USDT |-> 860000, NVDA |-> 50]}

\* the order dicts handed to execute_market_order
PaperOrders ==
    {[side |-> "buy", exchange |-> "bitget", symbol |-> "NVDAUSDT", amount |-> 100],
     [side |-> "sell", exchange |-> "bitget", symbol |-> "NVDAUSDT", amount |-> 100],
     [side |-> "sell", exchange |-> "bitget", symbol |-> "NVDAUSDT", amount |-> 50]}

\* pairs whose orders name the symbol of the price table, with equal legs
\* and with a sell leg larger than the buy leg
PaperPairs ==
    {[c EXCEPT !.buy_order.exchange = "bitget",
               !.buy_order.symbol = "NVDAUSDT",
               !.sell_order.amount = k * c.buy_order.amount] :
        c \in {close_pair(_load_positions(SavedLedger), 1, "Exit spread reached")},
        k \in {1, 2}}

\* PaperTradeExecutor.execute_market_order(order), from its sleep to its
\* return
paper_execute_market_order(order) ==
    \E r \in {execute_market_order(portfolio, order)} :
        /\ portfolio' = r.portfolio
        /\ last_call' = [op |-> "execute_market_order", seq |-> 1 - last_call.seq,
                         args |-> order, result |-> r.order]
        /\ UNCHANGED <<feedVars, today, last_entry, botVars, riskVars,
                       recorded_loss, engineVars, paper_trade_history,
                       liveVars, taskVars>>

InitPaper ==
    /\ config = RISK_CONFIG
    /\ daily_stats = NewDailyStats
    /\ session_loss = 0
    /\ total_trades = 0
    /\ max_drawdown = 0
    /\ daily_stats_file = Null
    /\ last_call = [op |-> None, seq |-> 0, args |-> Null, result |-> Null]
    /\ recorded_loss = 0
    /\ SetEngineInit(_load_positions(SavedLedger))
    /\ portfolio \in PaperPortfolios
    /\ paper_trade_history = <<>>
    /\ live = NewLive
    /\ loop = IdleLoop
    /\ dash = IdleDash
    /\ now = TRADING_CONFIG.MIN_ORDER_INTERVAL
    /\ ticks = 0
    /\ last_pair = [seq |-> 0, returns |-> <<>>]
    /\ FeedRegistered
    /\ today = 0
    /\ last_entry = NoEntry
    /\ BotCreated

NextPaper ==
    \/ \E o \in PaperOrders : paper_execute_market_order(o)
    \/ \E c \in EnginePairs \cup UnbalancedPairs \cup PaperPairs :
           paper_execute_fok_pair_async(c)

SpecPaper == InitPaper /\ [][NextPaper]_vars

\* the step is the return of a pair of the PaperTradeExecutor
PaperPairReturns ==
    /\ last_pair' # last_pair
    /\ last_pair'.returns[1].caller = "paper"

\* C40: after any sequence of single market orders and order pairs of the
\* PaperTradeExecutor, rejected orders and rolled-back buys included, the
\* USDT and NVDA balances of the portfolio are not negative; a rejected
\* order changes nothing, and a pair that returns a failure leaves both
\* balances as they were before the call.
C40_BalancesNeverNegative ==
    /\ [](portfolio.USDT >= 0 /\ portfolio.NVDA >= 0)
    /\ [][/\ (PaperPairReturns /\ ~last_pair'.returns[1].result.success)
                => portfolio' = portfolio
          /\ (/\ last_call' # last_call
              /\ last_call'.op = "execute_market_order"
              /\ ~last_call'.result.success)
                => portfolio' = portfolio]_vars

\* a pair has bought, failed to sell and rolled its buy back while the
\* portfolio held NVDA from an earlier order
C40_Witness ==
    /\ last_pair.returns # <<>>
    /\ last_pair.returns[1].caller = "paper"
    /\ SellLegFailed(last_pair.returns[1])
    /\ portfolio.NVDA > 0

\* a pair passed the balance check of execute_fok_pair and its buy leg was
\* rejected
C40_WitnessBuyRejected ==
    /\ last_pair.returns # <<>>
    /\ last_pair.returns[1].caller = "paper"
    /\ last_pair.returns[1].legs = <<Leg("buy", FALSE)>>

\* a pair was refused by the balance check of execute_fok_pair
C40_WitnessNoFunds ==
    /\ last_pair.returns # <<>>
    /\ last_pair.returns[1].caller = "paper"
    /\ last_pair.returns[1].legs = <<>>
    /\ ~last_pair.returns[1].result.success

\* a single sell was rejected for lack of NVDA
C40_WitnessSellRejected ==
    /\ last_call.op = "execute_market_order"
    /\ last_call.args.side = "sell"
    /\ ~last_call.result.success

\* a single buy was rejected for lack of USDT
C40_WitnessOrderRejected ==
    /\ last_call.op = "execute_market_order"
    /\ last_call.args.side = "buy"
    /\ ~last_call.result.success

====
